---- MODULE Spec2Model ----
(***************************************************************************)
(* Request pipeline of the gecko gateway: the iris handler chain built by  *)
(* MakeRouter, the authorization middlewares of gecko/middleware.go and    *)
(* the terminal handlers they guard.  Every request owns an iris context   *)
(* (handler chain, current handler index, response writer); the policy     *)
(* service (arborist, reached through middleware.JWTHandler) and the       *)
(* backing stores are external collaborators.                              *)
(***************************************************************************)
EXTENDS Integers, Sequences, FiniteSets, TLC

VARIABLES
  policy,   \* what the policy service currently answers to GetAllowedResources
  req,      \* req[r]: the inbound request (route, method, params, header)
  pc,       \* pc[r]: the statement the request's goroutine is at
  stack,    \* stack[r]: return labels of handlers suspended inside ctx.Next()
  ctx,      \* ctx[r]: the iris context (chain, index, params, response writer)
  loc,      \* loc[r]: local variables of the running middleware closure
  trace,    \* trace[r]: calls made so far to collaborators and handlers
  db,       \* the config_schema tables of the relational store
  hist,     \* what a client has observed of the requests completed so far
  fn        \* a helper function called on its own: argument and result

vars == <<policy, req, pc, stack, ctx, loc, trace, db, hist, fn>>

-----------------------------------------------------------------------------
(* Bounds *)

MaxIdLen == 3       \* longest projectId / configId, in characters
MaxListLen == 2     \* longest list returned by GetAllowedResources
MaxPathLen == 5
MaxHnswEf == 2     \* longest directory path handed to isValidPosixPath

RequestIds == {"r1"}

-----------------------------------------------------------------------------
(* Strings.  Identifiers are sequences of one-character strings so that     *)
(* strings.Split can be computed; everything else is a TLA+ string.        *)

IdChars == {"a", "-"}

RECURSIVE SeqsUpTo(_, _)
SeqsUpTo(S, n) ==
  IF n = 0 THEN {<<>>}
  ELSE LET shorter == SeqsUpTo(S, n - 1)
       IN shorter \cup {Append(s, c) : s \in {t \in shorter : Len(t) = n - 1}, c \in S}

Ids == SeqsUpTo(IdChars, MaxIdLen)

RECURSIVE Str(_)
Str(s) == IF s = <<>> THEN "" ELSE Head(s) \o Str(Tail(s))

\* strings.Split(s, sep): the segments between separators, always at least one
RECURSIVE SplitFrom(_, _, _)
SplitFrom(s, sep, cur) ==
  IF s = <<>> THEN <<Str(cur)>>
  ELSE IF Head(s) = sep THEN <<Str(cur)>> \o SplitFrom(Tail(s), sep, <<>>)
  ELSE SplitFrom(Tail(s), sep, Append(cur, Head(s)))

\* variant: strings.SplitN(s, sep, 2), which stops at the first separator
SplitN2(s, sep) ==
  IF \E i \in 1..Len(s) : s[i] = sep
  THEN LET k == CHOOSE i \in 1..Len(s) : s[i] = sep /\ \A j \in 1..(i - 1) : s[j] # sep
       IN <<Str(SubSeq(s, 1, k - 1)), Str(SubSeq(s, k + 1, Len(s)))>>
  ELSE <<Str(s)>>

Split(s, sep) == SplitFrom(s, sep, <<>>)

-----------------------------------------------------------------------------
(* Values of Go's `any` held in the list returned by the policy service.   *)

StrV(s) == [t |-> "string", s |-> s, n |-> 0]
IntV(n) == [t |-> "int", s |-> "", n |-> n]

\* fmt's %v
FmtV(v) == IF v.t = "string" THEN v.s ELSE ToString(v.n)

AnyElems == {StrV("/programs/a/projects/a"), StrV("/programs/a"),
             StrV("/programs/a/projects/*"), IntV(123), IntV(7)}

AnyLists == SeqsUpTo(AnyElems, MaxListLen)

\* *middleware.ServerError values and plain errors
ServerErrors == {[kind |-> "ServerError", Message |-> "token expired", StatusCode |-> 401],
                 [kind |-> "ServerError", Message |-> "arborist unavailable", StatusCode |-> 503]}
PlainErrors == {[kind |-> "error", Message |-> "generic error", StatusCode |-> 0]}
NoErr == [kind |-> "nil", Message |-> "", StatusCode |-> 0]

\* (list, err) results of JWTHandler.GetAllowedResources
PolicyAnswers ==
  {[list |-> l, err |-> NoErr] : l \in AnyLists}
    \cup {[list |-> <<>>, err |-> e] : e \in ServerErrors \cup PlainErrors}

\* (allowed, err) results of ProdJWTHandler.CheckResourceServiceAccess
CheckAnswers ==
  {[allowed |-> b, err |-> NoErr] : b \in BOOLEAN}
    \cup {[allowed |-> FALSE, err |-> e] : e \in ServerErrors \cup PlainErrors}

-----------------------------------------------------------------------------
(* Responses *)

\* newErrorResponse(message, code, nil); the message is kept as the pieces
\* fmt.Sprintf joins
newErrorResponse(message, code) == [Message |-> message, Code |-> code]

MsgNoToken == <<"Authorization token not provided">>
MsgBadPath(url) == <<"Failed to parse request body", ": incorrect path ", url>>
MsgBadMethod(word, method, url) ==
  <<"Failed to parse request body", ": ", word, " http method ", method, " on ", url>>
MsgNotServerError == <<"expecting error to be serverError type">>
MsgElement(v) == <<"Element ", FmtV(v), " is not a string">>
\* variant: the action left out of the message
MsgDenyAnyNoAction(method) == <<"User is not allowed on any resource path">>

MsgDenyAny(method) == <<"User is not allowed to ", method, " on any resource path">>
\* variant: the resource path left out of the message
MsgDenyNoPath(method, resource) == <<"User is not allowed to ", method, " on resource path">>

MsgDeny(method, resource) ==
  <<"User is not allowed to ", method, " on resource path: ", resource>>
MsgBaseDeny(method) ==
  <<"User does not have required ", method, " permission on resource ", "/programs">>
MsgBadJWT ==
  <<"Internal server error: ", "Invalid JWT handler configuration", " for this route">>

Contains(message, piece) == \E i \in 1..Len(message) : message[i] = piece

-----------------------------------------------------------------------------
(* Pure helpers of middleware.go *)

NilResp == [Message |-> <<>>, Code |-> 0]

\* variant: elements that are not strings are skipped instead of reported
RECURSIVE convertSkippingNonStrings(_)
convertSkippingNonStrings(anySlice) ==
  IF anySlice = <<>> THEN [list |-> <<>>, err |-> NilResp]
  ELSE LET v == Head(anySlice)
           rest == convertSkippingNonStrings(Tail(anySlice))
       IN IF v.t # "string" THEN rest
          ELSE [list |-> <<v.s>> \o rest.list, err |-> NilResp]

\* convertAnyToStringSlice: the strings of anySlice in order, or the error
\* for the first element that is not a string
RECURSIVE convertAnyToStringSlice(_)
convertAnyToStringSlice(anySlice) ==
  IF anySlice = <<>> THEN [list |-> <<>>, err |-> NilResp]
  ELSE LET v == Head(anySlice) IN
       IF v.t # "string"
       THEN [list |-> <<>>, err |-> newErrorResponse(MsgElement(v), 500)]
       ELSE LET rest == convertAnyToStringSlice(Tail(anySlice)) IN
            IF rest.err # NilResp THEN rest
            ELSE [list |-> <<v.s>> \o rest.list, err |-> NilResp]

\* slices.Contains
SlicesContains(list, x) == \E i \in 1..Len(list) : list[i] = x

\* variant: any non-empty list grants access (the membership test is lost)
ParseAccessAnyGrant(resourceList, resource, method) ==
  IF Len(resourceList) = 0
  THEN newErrorResponse(MsgDenyAny(method), 403)
  ELSE NilResp

\* variant: an empty list is taken to mean "no restriction"
ParseAccessEmptyAllows(resourceList, resource, method) ==
  IF Len(resourceList) = 0 \/ SlicesContains(resourceList, resource)
  THEN NilResp
  ELSE newErrorResponse(MsgDeny(method, resource), 403)

ParseAccess(resourceList, resource, method) ==
  IF Len(resourceList) = 0
  THEN newErrorResponse(MsgDenyAny(method), 403)
  ELSE IF SlicesContains(resourceList, resource)
  THEN NilResp
  ELSE newErrorResponse(MsgDeny(method, resource), 403)

\* "/programs/" + project_split[0] + "/projects/" + project_split[1]
ResourcePath(project_split) ==
  "/programs/" \o project_split[1] \o "/projects/" \o project_split[2]

-----------------------------------------------------------------------------
(* isValidPosixPath of handleDir.go.  A path is a sequence of characters;  *)
(* "NUL" stands for the zero byte.                                         *)

PathChars == {"/", ".", "a", "\\", "NUL"}
Paths == SeqsUpTo(PathChars, MaxPathLen)

\* the elements between slashes, as character sequences
RECURSIVE Elements(_, _)
Elements(s, cur) ==
  IF s = <<>> THEN <<cur>>
  ELSE IF Head(s) = "/" THEN <<cur>> \o Elements(Tail(s), <<>>)
  ELSE Elements(Tail(s), Append(cur, Head(s)))

RECURSIVE Join(_)
Join(elems) ==
  IF elems = <<>> THEN <<>>
  ELSE IF Len(elems) = 1 THEN elems[1]
  ELSE elems[1] \o <<"/">> \o Join(Tail(elems))

\* path.Clean, element by element: empty and "." elements are dropped, ".."
\* removes the element before it, is dropped at the root of a rooted path
\* and kept at the start of a relative one
RECURSIVE CleanElements(_, _, _)
CleanElements(elems, out, rooted) ==
  IF elems = <<>> THEN out
  ELSE LET e == Head(elems) IN
       IF e = <<>> \/ e = <<".">> THEN CleanElements(Tail(elems), out, rooted)
       ELSE IF e = <<".", ".">>
       THEN IF out # <<>> /\ out[Len(out)] # <<".", ".">>
            THEN CleanElements(Tail(elems), SubSeq(out, 1, Len(out) - 1), rooted)
            ELSE IF rooted THEN CleanElements(Tail(elems), out, rooted)
            ELSE CleanElements(Tail(elems), Append(out, e), rooted)
       ELSE CleanElements(Tail(elems), Append(out, e), rooted)

Clean(p) ==
  IF p = <<>> THEN <<".">>
  ELSE LET rooted == p[1] = "/"
           out == Join(CleanElements(Elements(p, <<>>), <<>>, rooted))
       IN IF rooted THEN <<"/">> \o out
          ELSE IF out = <<>> THEN <<".">> ELSE out

HasPrefix(s, prefix) == Len(s) >= Len(prefix) /\ SubSeq(s, 1, Len(prefix)) = prefix
ContainsRune(s, c) == \E i \in 1..Len(s) : s[i] = c
IsAbs(p) == Len(p) > 0 /\ p[1] = "/"

\* variant: the backslash test is missing
isValidPosixPathNoBackslashTest(p) ==
  IF ContainsRune(p, "NUL") THEN FALSE
  ELSE IF ~IsAbs(p) THEN FALSE
  ELSE LET cleaned == Clean(p) IN
       IF p = <<>> \/ cleaned = <<".">> THEN FALSE
       ELSE IF cleaned = <<".", ".">> \/ HasPrefix(cleaned, <<"/", ".", ".">>) THEN FALSE
       ELSE TRUE

isValidPosixPath(p) ==
  IF ContainsRune(p, "NUL") THEN FALSE
  ELSE IF ~IsAbs(p) THEN FALSE
  ELSE LET cleaned == Clean(p) IN
       IF p = <<>> \/ cleaned = <<".">> THEN FALSE
       ELSE IF cleaned = <<".", ".">> \/ HasPrefix(cleaned, <<"/", ".", ".">>) THEN FALSE
       ELSE IF ContainsRune(p, "\\") THEN FALSE
       ELSE TRUE

\* strings.Trim(s, cutset) for a cutset of one character
RECURSIVE Trim(_, _)
Trim(s, c) ==
  IF s = <<>> THEN s
  ELSE IF Head(s) = c THEN Trim(Tail(s), c)
  ELSE IF s[Len(s)] = c THEN Trim(SubSeq(s, 1, Len(s) - 1), c)
  ELSE s

\* the names handleDirGet adds to the traversal as Has(Eq("name", splStr)):
\* none for "/", else the elements of strings.SplitSeq(strings.Trim(dirPath, "/"), "/")
NameFilters(dirPath) ==
  IF dirPath = <<"/">> THEN <<>> ELSE Elements(Trim(dirPath, "/"), <<>>)

-----------------------------------------------------------------------------
(* Config documents (package config) and their JSON form.  A Go value      *)
(* keeps, for every field IsZero looks at, the length of the slice or map  *)
(* (0 for nil); RightSection is a pointer: <<>> when nil, <<n>> when it    *)
(* points at a section with n columns.  A JSON object is the set of its    *)
(* <<name, value>> members.                                                *)

KnownConfigTypes == {"explorer", "nav", "file_summary", "apps_page"}

\* the zero value &config.Config{}, &config.NavPageLayoutProps{}, ...
ZeroCfg == [explorerConfig |-> 0, appCards |-> 0, config |-> 0, leftNav |-> 0,
            rightSection |-> <<>>, bottomLinks |-> 0, columnLinks |-> 0]

\* the JSON names a struct of the type knows
FieldsOf(configType) ==
  CASE configType = "explorer" -> {"explorerConfig"}
    [] configType = "nav" -> {"headerProps.leftnav", "footerProps.rightSection",
                              "footerProps.bottomLinks", "footerProps.columnLinks"}
    [] configType = "file_summary" -> {"config"}
    [] configType = "apps_page" -> {"appCards"}
    [] OTHER -> {}

Member(pairs, name) == \E m \in pairs : m[1] = name
ValueOf(pairs, name) == (CHOOSE m \in pairs : m[1] = name)[2]
Length(pairs, name) == IF Member(pairs, name) THEN ValueOf(pairs, name) ELSE 0

\* dec.DisallowUnknownFields(); dec.Decode(cfg) and json.Unmarshal(content, cfg)
\* into the zero value of the type: absent members leave the field zero
Decode(configType, pairs, strict) ==
  IF strict /\ \E m \in pairs : m[1] \notin FieldsOf(configType)
  THEN [cfg |-> ZeroCfg, err |-> TRUE]
  ELSE [cfg |->
          CASE configType = "explorer" ->
                 [ZeroCfg EXCEPT !.explorerConfig = Length(pairs, "explorerConfig")]
            [] configType = "nav" ->
                 [ZeroCfg EXCEPT
                    !.leftNav = Length(pairs, "headerProps.leftnav"),
                    !.rightSection =
                       IF Member(pairs, "footerProps.rightSection")
                       THEN <<ValueOf(pairs, "footerProps.rightSection")>> ELSE <<>>,
                    !.bottomLinks = Length(pairs, "footerProps.bottomLinks"),
                    !.columnLinks = Length(pairs, "footerProps.columnLinks")]
            [] configType = "file_summary" ->
                 [ZeroCfg EXCEPT !.config = Length(pairs, "config")]
            [] configType = "apps_page" ->
                 [ZeroCfg EXCEPT !.appCards = Length(pairs, "appCards")]
            [] OTHER -> ZeroCfg,
        err |-> FALSE]

\* json.Marshal(cfg): members tagged omitempty are left out when empty
Marshal(configType, cfg) ==
  CASE configType = "explorer" -> {<<"explorerConfig", cfg.explorerConfig>>}
    [] configType = "nav" ->
         {<<"headerProps.leftnav", cfg.leftNav>>}
           \cup (IF cfg.rightSection # <<>>
                 THEN {<<"footerProps.rightSection", cfg.rightSection[1]>>} ELSE {})
           \cup (IF cfg.bottomLinks > 0
                 THEN {<<"footerProps.bottomLinks", cfg.bottomLinks>>} ELSE {})
           \cup (IF cfg.columnLinks > 0
                 THEN {<<"footerProps.columnLinks", cfg.columnLinks>>} ELSE {})
    [] configType = "file_summary" -> {<<"config", cfg.config>>}
    [] configType = "apps_page" -> {<<"appCards", cfg.appCards>>}
    [] OTHER -> {}

\* cfg.IsZero(): "true", "false", or "panic" when the nav layout reads
\* RightSection.Columns through a nil pointer
IsZero(configType, cfg) ==
  CASE configType = "explorer" -> IF cfg.explorerConfig = 0 THEN "true" ELSE "false"
    [] configType = "apps_page" -> IF cfg.appCards = 0 THEN "true" ELSE "false"
    [] configType = "file_summary" -> IF cfg.config = 0 THEN "true" ELSE "false"
    [] OTHER ->
         IF cfg.leftNav # 0 THEN "false"
         ELSE IF cfg.rightSection = <<>> THEN "panic"
         ELSE IF cfg.rightSection[1] # 0 THEN "false"
         ELSE IF cfg.bottomLinks # 0 THEN "false"
         ELSE IF cfg.columnLinks # 0 THEN "false"
         ELSE IF cfg.rightSection = <<>> THEN "true" ELSE "false"

\* request bodies of PUT: a stream that cannot be read, text that is not
\* JSON, or a JSON object
Body(kind, pairs) == [kind |-> kind, pairs |-> pairs]
NoBody == Body("", {})

Bodies ==
  {Body("unreadable", {}), Body("not json", {})}
    \cup {Body("object", o) :
            o \in {{}, {<<"foo", 1>>}, {<<"explorerConfig", 1>>}, {<<"appCards", 1>>},
                   {<<"config", 1>>}, {<<"headerProps.leftnav", 1>>},
                   {<<"footerProps.rightSection", 0>>},
                   {<<"footerProps.bottomLinks", 1>>}}}

\* The store.  When the server is the only writer of its tables (the
\* integration-test deployment) their rows are known; otherwise other
\* writers share them and a statement may find any row, none, or fail.
Row(configType, name, content) ==
  [configType |-> configType, name |-> name, content |-> content]

SharedStore == [exclusive |-> FALSE, rows |-> {}]
EmptyStore == [exclusive |-> TRUE, rows |-> {}]

\* contents another writer may have left in a table of the type
Contents(configType) ==
  {Marshal(configType, Decode(configType, b.pairs, TRUE).cfg) :
     b \in {x \in Bodies : x.kind = "object" /\ ~Decode(configType, x.pairs, TRUE).err}}

\* results of db.Get in getDocByIdAndTable: [found, content, err]
NoDoc == [found |-> FALSE, content |-> {}, err |-> FALSE]
DbError == [found |-> FALSE, content |-> {}, err |-> TRUE]
Doc(content) == [found |-> TRUE, content |-> content, err |-> FALSE]

getDocByIdAndTable(configId, configType) ==
  IF db.exclusive
  THEN IF \E row \in db.rows : row.configType = configType /\ row.name = configId
       THEN {Doc(row.content) : row \in {x \in db.rows : x.configType = configType
                                                          /\ x.name = configId}}
       ELSE {NoDoc}
  ELSE {Doc(c) : c \in Contents(configType)} \cup {NoDoc, DbError}

\* results of db.Select in configListByType: the names found, a nil slice,
\* or an error; a table that does not exist is an error
configListByType(configType) ==
  IF db.exclusive
  THEN IF configType \notin KnownConfigTypes THEN {"error"}
       ELSE IF \E row \in db.rows : row.configType = configType THEN {"names"} ELSE {"nil"}
  ELSE {"names", "nil", "error"}

\* results of db.Exec: TRUE when the statement succeeded
Exec == IF db.exclusive THEN {TRUE} ELSE {TRUE, FALSE}

\* INSERT ... ON CONFLICT (name) DO UPDATE SET content
Upsert(configId, configType, content) ==
  IF db.exclusive
  THEN [db EXCEPT !.rows = {row \in @ : ~(row.configType = configType /\ row.name = configId)}
                             \cup {Row(configType, configId, content)}]
  ELSE db

\* DELETE FROM ... WHERE name = $1
Delete(configId, configType) ==
  IF db.exclusive
  THEN [db EXCEPT !.rows = {row \in @ : ~(row.configType = configType /\ row.name = configId)}]
  ELSE db

-----------------------------------------------------------------------------
(* The vector adapter (package adapter).  A slice or string is kept as its  *)
(* length, a pointer as <<>> (nil) or <<v>>.                                *)

\* a JSON member that may be absent
Optional(name, values) == {{}} \cup {{<<name, v>>} : v \in values}

\* request bodies of POST .../points/search: text that is not JSON, or an
\* object with any of query, lookup_id, positives, negatives
QueryBodies ==
  {Body("not json", {})}
    \cup {Body("object", q \cup l \cup p \cup n) :
            q \in Optional("query", 0..MaxListLen), l \in Optional("lookup_id", 0..1),
            p \in Optional("positives", 0..MaxListLen),
            n \in Optional("negatives", 0..MaxListLen)}

\* ctx.ReadJSON(&req) into the zero QueryPointsRequest
ReadJSON(pairs) ==
  [Query |-> Length(pairs, "query"),
   LookupID |-> IF Member(pairs, "lookup_id") THEN <<ValueOf(pairs, "lookup_id")>> ELSE <<>>,
   Positives |-> Length(pairs, "positives"),
   Negatives |-> Length(pairs, "negatives")]

MsgNoInput ==
  "must specify either 'query' vector or recommend inputs (positives/negatives/lookup_id)"

\* variant: the test for a positive is missing
ToQdrantQueryNegativesOnly(request) ==
  LET positives == (IF request.LookupID # <<>> THEN 1 ELSE 0) + request.Positives
      negatives == request.Negatives
      hasQueryVector == request.Query > 0
      hasRecommend == positives > 0 \/ negatives > 0
  IN IF hasQueryVector /\ hasRecommend
     THEN [err |-> "cannot use both 'query' vector and recommend inputs "
                    \o "(positives/negatives/lookup_id) simultaneously",
           Query |-> ""]
     ELSE IF hasRecommend THEN [err |-> "", Query |-> "Recommend"]
     ELSE IF hasQueryVector THEN [err |-> "", Query |-> "Nearest"]
     ELSE [err |-> MsgNoInput, Query |-> ""]

\* the ids are Go strings, for which toPointID has no error
ToQdrantQuery(request) ==
  LET positives == (IF request.LookupID # <<>> THEN 1 ELSE 0) + request.Positives
      negatives == request.Negatives
      hasQueryVector == request.Query > 0
      hasRecommend == positives > 0 \/ negatives > 0
  IN IF hasQueryVector /\ hasRecommend
     THEN [err |-> "cannot use both 'query' vector and recommend inputs "
                    \o "(positives/negatives/lookup_id) simultaneously",
           Query |-> ""]
     ELSE IF hasRecommend
     THEN IF positives = 0
          THEN [err |-> "must provide at least one positive for recommend query",
                Query |-> ""]
          ELSE [err |-> "", Query |-> "Recommend"]
     ELSE IF hasQueryVector THEN [err |-> "", Query |-> "Nearest"]
     ELSE [err |-> MsgNoInput, Query |-> ""]

\* *SearchParamsRequest: nil, or a struct of four pointers
Pointers(values) == {<<>>} \cup {<<v>> : v \in values}

SearchParamsRequests ==
  {<<>>} \cup {<<[HnswEf |-> h, Exact |-> e, Quantization |-> q, SearchWithout |-> w]>> :
                 h \in Pointers(0..MaxHnswEf), e \in Pointers(BOOLEAN),
                 q \in Pointers(BOOLEAN), w \in Pointers(BOOLEAN)}

\* the returned *qdrant.SearchParams: <<>> for nil
ToQdrantSearchParams(request) ==
  IF request = <<>> THEN <<>>
  ELSE LET params == [HnswEf |-> request[1].HnswEf, Exact |-> request[1].Exact]
       IN IF params.Exact = <<>> THEN <<>> ELSE <<params>>

\* qdrantClient.Query: 200 for a result, else MapQdrantErrorToHTTPStatus(err)
QueryResults == {200, 400, 401, 404, 409, 500, 503}

-----------------------------------------------------------------------------
(* Requests and the handler chains MakeRouter registers for them *)

Routes == {"GET /dir", "GET /dir/{projectId}", "/config/{configType}/{configId}"}

VectorRoutes == {"POST /vector/collections/{collection}/points/search"}

\* direct invocations of a middleware on a bare context, as the integration
\* tests make them
UnitRoutes == {"unit GeneralAuthMware", "unit BaseConfigsAuthMiddleware",
               "unit ConfigAuthMiddleware", "unit ProjLevelAuthMware"}

\* two of the types the handlers know and one they do not
ConfigTypes == {"explorer", "nav", "users"}
Headers == {"", "Bearer dummy"}

Request(route, method, configType, id, auth, jwt, dirOk) ==
  [route |-> route, method |-> method, configType |-> configType, id |-> id,
   Authorization |-> auth, jwtHandler |-> jwt, dirOk |-> dirOk]

NoRequest == Request("", "", "", <<>>, "", "", FALSE)

Requests ==
  {Request("GET /dir", "GET", "", <<>>, h, "ProdJWTHandler", FALSE) : h \in Headers}
  \cup {Request("GET /dir/{projectId}", "GET", "", i, h, "ProdJWTHandler", d) :
          i \in Ids, h \in Headers, d \in BOOLEAN}
  \cup {Request("/config/{configType}/{configId}", m, t, i, h, "ProdJWTHandler", FALSE) :
          m \in {"GET", "PUT", "DELETE"}, t \in ConfigTypes, i \in Ids, h \in Headers}
  \cup {Request("GET /config/list", "GET", "", <<>>, h, "ProdJWTHandler", FALSE) :
          h \in Headers}
  \cup {Request("unit GeneralAuthMware", "GET", "", i, h, "MockJWTHandler", FALSE) :
          i \in Ids, h \in Headers}
  \cup {Request("unit BaseConfigsAuthMiddleware", "GET", "", <<>>, h, "MockJWTHandler", FALSE) :
          h \in Headers}
  \cup {Request("unit ConfigAuthMiddleware", m, t, i, h, "MockJWTHandler", FALSE) :
          m \in {"GET", "PUT", "DELETE", "PATCH"}, t \in ConfigTypes, i \in Ids,
          h \in Headers}
  \cup {Request("unit ProjLevelAuthMware", "GET", "", i, h, "MockJWTHandler", FALSE) :
          i \in Ids, h \in Headers}

ConfigHandler(method) ==
  CASE method = "GET" -> "handleConfigGET"
    [] method = "PUT" -> "handleConfigPUT"
    [] OTHER -> "handleConfigDELETE"

\* the handlers of a route, in the order router.Use and router.Get/Put/Delete
\* put them; a bare context has none
Chain(q) ==
  CASE q.route = "GET /dir" ->
         <<"recoveryMiddleware", "logRequestMiddleware", "handleListProjects">>
    [] q.route = "GET /dir/{projectId}" ->
         <<"recoveryMiddleware", "logRequestMiddleware", "GeneralAuthMware", "handleDirGet">>
    [] q.route = "GET /config/list" ->
         <<"recoveryMiddleware", "logRequestMiddleware", "handleConfigListGET">>
    [] q.route \in VectorRoutes ->
         <<"recoveryMiddleware", "logRequestMiddleware", "handleQueryPoints">>
    [] q.route = "/config/{configType}/{configId}" ->
         <<"recoveryMiddleware", "logRequestMiddleware", "ConfigAuthMiddleware",
           ConfigHandler(q.method)>>
    [] OTHER -> <<>>

\* the first function that runs for the request
Entry(q) ==
  CASE q.route = "unit GeneralAuthMware" -> "GeneralAuthMware"
    [] q.route = "unit BaseConfigsAuthMiddleware" -> "BaseConfigsAuthMiddleware"
    [] q.route = "unit ConfigAuthMiddleware" -> "ConfigAuthMiddleware"
    [] q.route = "unit ProjLevelAuthMware" -> "ProjLevelAuthMware"
    [] OTHER -> "recoveryMiddleware"

\* ctx.Request().URL
Url(q) ==
  CASE q.route = "GET /dir" -> "/dir"
    [] q.route = "GET /dir/{projectId}" -> "/dir/" \o Str(q.id)
    [] q.route = "GET /config/list" -> "/config/list"
    [] q.route \in VectorRoutes -> "/vector/collections/c/points/search"
    [] q.route = "/config/{configType}/{configId}" ->
         "/config/" \o q.configType \o "/" \o Str(q.id)
    [] OTHER -> "/"

\* the (method, service) a middleware closure was built with
ClosureArgs(q) ==
  CASE q.route = "GET /dir/{projectId}" -> [method |-> "read", service |-> "*"]
    [] q.route = "unit GeneralAuthMware" -> [method |-> "read", service |-> "*"]
    [] q.route = "unit BaseConfigsAuthMiddleware" -> [method |-> "read", service |-> "*"]
    [] OTHER -> [method |-> "", service |-> ""]

-----------------------------------------------------------------------------
(* The iris context *)

NewContext(q) ==
  [handlers |-> Chain(q), idx |-> 0, stopped |-> FALSE,
   projectId |-> IF q.route \in {"GET /dir/{projectId}", "unit GeneralAuthMware",
                                  "unit ProjLevelAuthMware"}
                 THEN q.id ELSE <<>>,
   code |-> 200, wire |-> 0, body |-> <<>>]

IdleContext == [handlers |-> <<>>, idx |-> 0, stopped |-> FALSE, projectId |-> <<>>,
                code |-> 200, wire |-> 0, body |-> <<>>]

NoLocals == [method |-> "", service |-> "", project_split |-> <<>>,
             anyList |-> <<>>, resourceList |-> <<>>, allowed |-> FALSE, err |-> NoErr,
             body |-> NoBody]

\* ctx.StatusCode(code); ctx.Write(bytes): the status goes on the wire with
\* the first write
WriteBody(c, code, message) ==
  [c EXCEPT !.code = code,
            !.wire = IF c.wire = 0 THEN code ELSE c.wire,
            !.body = Append(c.body, [Code |-> code, Message |-> message, Content |-> {}])]

\* jsonResponseFrom(cfg, 200).write(ctx): the marshalled config is the body
WriteContent(c, content) ==
  [c EXCEPT !.code = 200,
            !.wire = IF c.wire = 0 THEN 200 ELSE c.wire,
            !.body = Append(c.body, [Code |-> 200, Message |-> <<>>, Content |-> content])]

\* errorResponse.write(ctx)
WriteError(c, e) == WriteBody(c, e.Code, e.Message)

StopExecution(c) == [c EXCEPT !.stopped = TRUE]

\* ctx.Next() runs handlers[idx+1] unless the context is stopped or the chain
\* is exhausted
NextRuns(c) == ~c.stopped /\ c.idx + 1 < Len(c.handlers)

\* the status the client receives
Status(c) == IF c.wire # 0 THEN c.wire ELSE c.code

-----------------------------------------------------------------------------
(* Initial state and the environment *)

\* nothing observed yet; no helper called
NoHistory == [prev |-> <<>>, lastWrite |-> <<>>, seen |-> <<>>]
NoCall == [name |-> "", arg |-> <<>>, result |-> ""]

Init ==
  /\ policy \in PolicyAnswers
  /\ req = [r \in RequestIds |-> NoRequest]
  /\ pc = [r \in RequestIds |-> "idle"]
  /\ stack = [r \in RequestIds |-> <<>>]
  /\ ctx = [r \in RequestIds |-> IdleContext]
  /\ loc = [r \in RequestIds |-> NoLocals]
  /\ trace = [r \in RequestIds |-> <<>>]
  /\ db = SharedStore
  /\ hist = NoHistory
  /\ fn = NoCall

\* the policy service changes its answer (grants added or revoked, token
\* expired, outage) between requests
PolicyChange ==
  /\ \A r \in RequestIds : pc[r] = "idle"
  /\ policy' \in PolicyAnswers \ {policy}
  /\ hist' = [hist EXCEPT !.prev = <<>>]
  /\ UNCHANGED <<req, pc, stack, ctx, loc, trace, db, fn>>

\* the router (or a test) hands request q a fresh context and runs its first
\* handler
Accept(r, q) ==
  /\ req' = [req EXCEPT ![r] = q]
  /\ ctx' = [ctx EXCEPT ![r] = NewContext(q)]
  /\ loc' = [loc EXCEPT ![r] = [NoLocals EXCEPT !.method = ClosureArgs(q).method,
                                                 !.service = ClosureArgs(q).service]]
  /\ pc' = [pc EXCEPT ![r] = Entry(q)]
  /\ stack' = [stack EXCEPT ![r] = <<>>]
  /\ trace' = [trace EXCEPT ![r] = <<>>]

\* a request arrives
Receive(r) ==
  /\ pc[r] = "idle"
  /\ \E q \in Requests : Accept(r, q)
  /\ UNCHANGED <<policy, db, hist, fn>>

\* the response has been sent; the context goes back to the pool
Release(r) ==
  /\ req' = [req EXCEPT ![r] = NoRequest]
  /\ pc' = [pc EXCEPT ![r] = "idle"]
  /\ stack' = [stack EXCEPT ![r] = <<>>]
  /\ ctx' = [ctx EXCEPT ![r] = IdleContext]
  /\ loc' = [loc EXCEPT ![r] = NoLocals]
  /\ trace' = [trace EXCEPT ![r] = <<>>]

Complete(r) ==
  /\ pc[r] = "done"
  /\ Release(r)
  /\ UNCHANGED <<policy, db, hist, fn>>

-----------------------------------------------------------------------------
(* Control flow shared by the handlers *)

\* ctx.Next() called from a handler that continues at `ret` afterwards
\* ("return" when the call is the handler's last statement); c is the
\* context as the caller leaves it
CallNext(r, c, ret) ==
  IF NextRuns(c)
  THEN /\ ctx' = [ctx EXCEPT ![r] = [c EXCEPT !.idx = c.idx + 1]]
       /\ pc' = [pc EXCEPT ![r] = c.handlers[c.idx + 2]]
       /\ stack' = [stack EXCEPT ![r] = IF ret = "return" THEN @ ELSE <<ret>> \o @]
  ELSE /\ ctx' = [ctx EXCEPT ![r] = c]
       /\ pc' = [pc EXCEPT ![r] = ret]
       /\ stack' = stack

\* errResponse.write(ctx); ctx.StopExecution(); return
Reject(r, e) ==
  /\ ctx' = [ctx EXCEPT ![r] = StopExecution(WriteError(ctx[r], e))]
  /\ pc' = [pc EXCEPT ![r] = "return"]
  /\ stack' = stack

\* variant: every *ServerError is reported as 401, its StatusCode ignored
PolicyErrorResponseAlways401(err) ==
  IF err.kind # "ServerError"
  THEN newErrorResponse(MsgNotServerError, 404)
  ELSE newErrorResponse(<<err.Message>>, 401)

\* variant: an error without the {message, status} shape is reported as a
\* policy denial
PolicyErrorResponseUnstructuredAs403(err) ==
  IF err.kind # "ServerError"
  THEN newErrorResponse(<<err.Message>>, 403)
  ELSE newErrorResponse(<<err.Message>>, err.StatusCode)

\* the error branch shared by every policy call
PolicyErrorResponse(err) ==
  IF err.kind # "ServerError"
  THEN newErrorResponse(MsgNotServerError, 404)
  ELSE newErrorResponse(<<err.Message>>, err.StatusCode)

Log(r, event) == trace' = [trace EXCEPT ![r] = Append(@, event)]

\* a handler function returns to the handler that called ctx.Next()
Return(r) ==
  /\ pc[r] = "return"
  /\ IF stack[r] = <<>>
     THEN /\ pc' = [pc EXCEPT ![r] = "done"]
          /\ stack' = stack
     ELSE /\ pc' = [pc EXCEPT ![r] = Head(stack[r])]
          /\ stack' = [stack EXCEPT ![r] = Tail(@)]
  /\ UNCHANGED <<policy, req, ctx, loc, trace, db, hist, fn>>

\* a handler panics: the goroutine unwinds to the nearest deferred recover
Panic(r) ==
  /\ pc' = [pc EXCEPT ![r] = "panic"]
  /\ UNCHANGED <<ctx, stack>>

\* variant: ctx.Next() without the deferred recover
recoveryMiddlewareNoDefer(r) ==
  /\ pc[r] = "recoveryMiddleware"
  /\ CallNext(r, ctx[r], "return")
  /\ UNCHANGED <<policy, req, loc, trace, db, hist, fn>>

\* defer func() {...}(); ctx.Next()
recoveryMiddleware(r) ==
  /\ pc[r] = "recoveryMiddleware"
  /\ CallNext(r, ctx[r], "recoveryMiddleware_deferred")
  /\ UNCHANGED <<policy, req, loc, trace, db, hist, fn>>

Deferred(r) == \E i \in 1..Len(stack[r]) : stack[r][i] = "recoveryMiddleware_deferred"

\* the deferred function of recoveryMiddleware: it runs when the chain below
\* has returned (recover() is nil) and when a panic unwinds to it
recoveryMiddlewareDeferred(r) ==
  /\ \/ pc[r] = "recoveryMiddleware_deferred"
     \/ pc[r] = "panic" /\ Deferred(r)
  /\ IF pc[r] = "panic"
     THEN LET k == CHOOSE i \in 1..Len(stack[r]) : stack[r][i] = "recoveryMiddleware_deferred"
          IN /\ ctx' = [ctx EXCEPT ![r] = WriteBody(@, 500, <<"Internal Server Error">>)]
             /\ stack' = [stack EXCEPT ![r] = SubSeq(@, k + 1, Len(@))]
     ELSE UNCHANGED <<ctx, stack>>
  /\ pc' = [pc EXCEPT ![r] = "return"]
  /\ UNCHANGED <<policy, req, loc, trace, db, hist, fn>>

logRequestMiddleware(r) ==
  /\ pc[r] = "logRequestMiddleware"
  /\ CallNext(r, ctx[r], "logRequestMiddleware_log")
  /\ UNCHANGED <<policy, req, loc, trace, db, hist, fn>>

\* the statements of logRequestMiddleware after ctx.Next()
logRequestMiddlewareLog(r) ==
  /\ pc[r] = "logRequestMiddleware_log"
  /\ pc' = [pc EXCEPT ![r] = "return"]
  /\ UNCHANGED <<policy, req, stack, ctx, loc, trace, db, hist, fn>>

-----------------------------------------------------------------------------
(* GeneralAuthMware *)

\* variant: the empty-header check is missing
GeneralAuthMwareNoTokenCheck(r) ==
  /\ pc[r] = "GeneralAuthMware"
  /\ pc' = [pc EXCEPT ![r] = "GeneralAuthMware_split"]
  /\ Log(r, "GeneralAuthMware")
  /\ UNCHANGED <<policy, req, loc, ctx, stack, db, hist, fn>>

\* variant: the path is derived before the header is looked at
GeneralAuthMwareSplitFirst(r) ==
  /\ pc[r] = "GeneralAuthMware"
  /\ IF Len(Split(ctx[r].projectId, "-")) # 2
     THEN Reject(r, newErrorResponse(MsgBadPath(Url(req[r])), 404))
     ELSE IF req[r].Authorization = ""
          THEN Reject(r, newErrorResponse(MsgNoToken, 400))
          ELSE /\ pc' = [pc EXCEPT ![r] = "GeneralAuthMware_split"]
               /\ UNCHANGED <<ctx, stack>>
  /\ Log(r, "GeneralAuthMware")
  /\ UNCHANGED <<policy, req, loc, db, hist, fn>>

GeneralAuthMware(r) ==
  /\ pc[r] = "GeneralAuthMware"
  /\ IF req[r].Authorization = ""
     THEN Reject(r, newErrorResponse(MsgNoToken, 400))
     ELSE /\ pc' = [pc EXCEPT ![r] = "GeneralAuthMware_split"]
          /\ UNCHANGED <<ctx, stack>>
  /\ Log(r, "GeneralAuthMware")
  /\ UNCHANGED <<policy, req, loc, db, hist, fn>>

\* variant: project_split is kept in a variable of the server that every
\* request writes and reads
GeneralAuthMwareSplitShared(r) ==
  /\ pc[r] = "GeneralAuthMware_split"
  /\ LET project_split == Split(ctx[r].projectId, "-") IN
     IF Len(project_split) # 2
     THEN /\ Reject(r, newErrorResponse(MsgBadPath(Url(req[r])), 404))
          /\ UNCHANGED loc
     ELSE /\ loc' = [x \in DOMAIN loc |-> [loc[x] EXCEPT !.project_split = project_split]]
          /\ pc' = [pc EXCEPT ![r] = "GeneralAuthMware_policy"]
          /\ UNCHANGED <<ctx, stack>>
  /\ UNCHANGED <<policy, req, trace, db, hist, fn>>

GeneralAuthMwareSplit(r) ==
  /\ pc[r] = "GeneralAuthMware_split"
  /\ LET project_split == Split(ctx[r].projectId, "-") IN
     IF Len(project_split) # 2
     THEN /\ Reject(r, newErrorResponse(MsgBadPath(Url(req[r])), 404))
          /\ UNCHANGED loc
     ELSE /\ loc' = [loc EXCEPT ![r].project_split = project_split]
          /\ pc' = [pc EXCEPT ![r] = "GeneralAuthMware_policy"]
          /\ UNCHANGED <<ctx, stack>>
  /\ UNCHANGED <<policy, req, trace, db, hist, fn>>

\* variant: the middleware empties the list the policy client handed it, a
\* slice the client keeps
GeneralAuthMwarePolicyDraining(r) ==
  /\ pc[r] = "GeneralAuthMware_policy"
  /\ Log(r, "GetAllowedResources")
  /\ IF policy.err # NoErr
     THEN /\ Reject(r, PolicyErrorResponse(policy.err))
          /\ loc' = [loc EXCEPT ![r].err = policy.err]
          /\ UNCHANGED policy
     ELSE /\ loc' = [loc EXCEPT ![r].anyList = policy.list]
          /\ policy' = [policy EXCEPT !.list = <<>>]
          /\ pc' = [pc EXCEPT ![r] = "GeneralAuthMware_convert"]
          /\ UNCHANGED <<ctx, stack>>
  /\ UNCHANGED <<req, db, hist, fn>>

\* variant: the list of the first successful call is kept and used for
\* every later request
GeneralAuthMwarePolicyMemoized(r) ==
  /\ pc[r] = "GeneralAuthMware_policy"
  /\ Log(r, "GetAllowedResources")
  /\ IF fn.name = "GetAllowedResources"
     THEN /\ loc' = [loc EXCEPT ![r].anyList = fn.arg]
          /\ pc' = [pc EXCEPT ![r] = "GeneralAuthMware_convert"]
          /\ UNCHANGED <<ctx, stack, fn>>
     ELSE IF policy.err # NoErr
     THEN /\ Reject(r, PolicyErrorResponse(policy.err))
          /\ loc' = [loc EXCEPT ![r].err = policy.err]
          /\ UNCHANGED fn
     ELSE /\ loc' = [loc EXCEPT ![r].anyList = policy.list]
          /\ fn' = [name |-> "GetAllowedResources", arg |-> policy.list, result |-> ""]
          /\ pc' = [pc EXCEPT ![r] = "GeneralAuthMware_convert"]
          /\ UNCHANGED <<ctx, stack>>
  /\ UNCHANGED <<policy, req, db, hist>>

GeneralAuthMwarePolicy(r) ==
  /\ pc[r] = "GeneralAuthMware_policy"
  /\ Log(r, "GetAllowedResources")
  /\ IF policy.err # NoErr
     THEN /\ Reject(r, PolicyErrorResponse(policy.err))
          /\ loc' = [loc EXCEPT ![r].err = policy.err]
     ELSE /\ loc' = [loc EXCEPT ![r].anyList = policy.list]
          /\ pc' = [pc EXCEPT ![r] = "GeneralAuthMware_convert"]
          /\ UNCHANGED <<ctx, stack>>
  /\ UNCHANGED <<policy, req, db, hist, fn>>

GeneralAuthMwareConvert(r) ==
  /\ pc[r] = "GeneralAuthMware_convert"
  /\ LET conv == convertAnyToStringSlice(loc[r].anyList) IN
     IF conv.err # NilResp
     THEN /\ Reject(r, conv.err)
          /\ UNCHANGED loc
     ELSE /\ loc' = [loc EXCEPT ![r].resourceList = conv.list]
          /\ pc' = [pc EXCEPT ![r] = "GeneralAuthMware_access"]
          /\ UNCHANGED <<ctx, stack>>
  /\ UNCHANGED <<policy, req, trace, db, hist, fn>>

GeneralAuthMwareAccess(r) ==
  /\ pc[r] = "GeneralAuthMware_access"
  /\ LET convErr == ParseAccess(loc[r].resourceList,
                                ResourcePath(loc[r].project_split), loc[r].method) IN
     IF convErr # NilResp
     THEN /\ Reject(r, convErr)
          /\ UNCHANGED trace
     ELSE /\ CallNext(r, ctx[r], "return")
          /\ Log(r, "Next GeneralAuthMware")
  /\ UNCHANGED <<policy, req, loc, db, hist, fn>>

-----------------------------------------------------------------------------
(* ProjLevelAuthMware, the project check of the earlier router; its route   *)
(* parameter project_id is the context's projectId                         *)

ProjLevelAuthMware(r) ==
  /\ pc[r] = "ProjLevelAuthMware"
  /\ LET project_split == Split(ctx[r].projectId, "-") IN
     IF Len(project_split) # 2
     THEN /\ Reject(r, newErrorResponse(MsgBadPath(Url(req[r])), 404))
          /\ UNCHANGED loc
     ELSE IF req[r].Authorization = ""
     THEN /\ Reject(r, newErrorResponse(MsgNoToken, 400))
          /\ UNCHANGED loc
     ELSE /\ loc' = [loc EXCEPT ![r].project_split = project_split]
          /\ pc' = [pc EXCEPT ![r] = "ProjLevelAuthMware_policy"]
          /\ UNCHANGED <<ctx, stack>>
  /\ Log(r, "ProjLevelAuthMware")
  /\ UNCHANGED <<policy, req, db, hist, fn>>

\* jwtHandler.HandleJWTToken(Token, "read") and what follows it.  A list that
\* does not convert is answered 500 without a return; the result of
\* ParseAccess is assigned to convErr and the test that follows is on err,
\* the error of the policy call
ProjLevelAuthMwarePolicy(r) ==
  /\ pc[r] = "ProjLevelAuthMware_policy"
  /\ IF policy.err # NoErr
     THEN /\ Reject(r, PolicyErrorResponse(policy.err))
          /\ loc' = [loc EXCEPT ![r].err = policy.err]
          /\ Log(r, "HandleJWTToken")
     ELSE LET err == policy.err
              conv == convertAnyToStringSlice(policy.list)
              c == IF conv.err # NilResp
                   THEN StopExecution(WriteError(ctx[r], conv.err))
                   ELSE ctx[r]
              convErr == ParseAccess(conv.list, ResourcePath(loc[r].project_split), "read")
          IN /\ loc' = [loc EXCEPT ![r].anyList = policy.list, ![r].resourceList = conv.list]
             /\ IF err # NoErr
                THEN /\ ctx' = [ctx EXCEPT ![r] = StopExecution(WriteError(c, convErr))]
                     /\ pc' = [pc EXCEPT ![r] = "return"]
                     /\ stack' = stack
                     /\ Log(r, "HandleJWTToken")
                ELSE /\ CallNext(r, c, "return")
                     /\ trace' = [trace EXCEPT ![r] = @ \o <<"HandleJWTToken",
                                                               "Next ProjLevelAuthMware">>]
  /\ UNCHANGED <<policy, req, db, hist, fn>>

-----------------------------------------------------------------------------
(* BaseConfigsAuthMiddleware *)

\* variant: the type assertion on the policy client is missing
BaseConfigsAuthMiddlewareNoTypeCheck(r) ==
  /\ pc[r] = "BaseConfigsAuthMiddleware"
  /\ IF req[r].Authorization = ""
     THEN Reject(r, newErrorResponse(MsgNoToken, 400))
     ELSE /\ pc' = [pc EXCEPT ![r] = "BaseConfigsAuthMiddleware_check"]
          /\ UNCHANGED <<ctx, stack>>
  /\ Log(r, "BaseConfigsAuthMiddleware")
  /\ UNCHANGED <<policy, req, loc, db, hist, fn>>

BaseConfigsAuthMiddleware(r) ==
  /\ pc[r] = "BaseConfigsAuthMiddleware"
  /\ IF req[r].Authorization = ""
     THEN Reject(r, newErrorResponse(MsgNoToken, 400))
     ELSE IF req[r].jwtHandler # "ProdJWTHandler"
     THEN Reject(r, newErrorResponse(MsgBadJWT, 500))
     ELSE /\ pc' = [pc EXCEPT ![r] = "BaseConfigsAuthMiddleware_check"]
          /\ UNCHANGED <<ctx, stack>>
  /\ Log(r, "BaseConfigsAuthMiddleware")
  /\ UNCHANGED <<policy, req, loc, db, hist, fn>>

BaseConfigsAuthMiddlewareCheck(r) ==
  /\ pc[r] = "BaseConfigsAuthMiddleware_check"
  /\ \E answer \in CheckAnswers :
       /\ loc' = [loc EXCEPT ![r].allowed = answer.allowed, ![r].err = answer.err]
       /\ IF answer.err # NoErr
          THEN /\ Reject(r, PolicyErrorResponse(answer.err))
               /\ Log(r, "CheckResourceServiceAccess")
          ELSE IF ~answer.allowed
          THEN /\ Reject(r, newErrorResponse(MsgBaseDeny(loc[r].method), 403))
               /\ Log(r, "CheckResourceServiceAccess")
          ELSE /\ CallNext(r, ctx[r], "return")
               /\ trace' = [trace EXCEPT ![r] = @ \o <<"CheckResourceServiceAccess",
                                                         "Next BaseConfigsAuthMiddleware">>]
  /\ UNCHANGED <<policy, req, db, hist, fn>>

-----------------------------------------------------------------------------
(* ConfigAuthMiddleware *)

ConfigAuthMiddleware(r) ==
  /\ pc[r] = "ConfigAuthMiddleware"
  /\ LET method == req[r].method IN
     IF req[r].configType = "explorer"
     THEN IF method \in {"GET", "PUT", "DELETE"}
          THEN /\ loc' = [loc EXCEPT ![r].method = IF method = "GET" THEN "read" ELSE "create",
                                     ![r].service = "*"]
               /\ pc' = [pc EXCEPT ![r] = "ConfigIDToProjectIDMware"]
               /\ Log(r, "ConfigAuthMiddleware")
               /\ UNCHANGED <<ctx, stack>>
          ELSE /\ Reject(r, newErrorResponse(MsgBadMethod("incorrect", method, Url(req[r])), 404))
               /\ Log(r, "ConfigAuthMiddleware")
               /\ UNCHANGED loc
     ELSE IF method = "GET"
          THEN /\ CallNext(r, ctx[r], "return")
               /\ trace' = [trace EXCEPT ![r] = @ \o <<"ConfigAuthMiddleware",
                                                         "Next ConfigAuthMiddleware">>]
               /\ UNCHANGED loc
          ELSE IF method \in {"PUT", "DELETE"}
          THEN /\ loc' = [loc EXCEPT ![r].method = "*", ![r].service = "*"]
               /\ pc' = [pc EXCEPT ![r] = "BaseConfigsAuthMiddleware"]
               /\ Log(r, "ConfigAuthMiddleware")
               /\ UNCHANGED <<ctx, stack>>
          ELSE /\ Reject(r, newErrorResponse(MsgBadMethod("unsupported", method, Url(req[r])), 404))
               /\ Log(r, "ConfigAuthMiddleware")
               /\ UNCHANGED loc
  /\ UNCHANGED <<policy, req, db, hist, fn>>

\* called by ConfigAuthMiddleware, which goes on to run GeneralAuthMware
\* when this returns
ConfigIDToProjectIDMware(r) ==
  /\ pc[r] = "ConfigIDToProjectIDMware"
  /\ CallNext(r, [ctx[r] EXCEPT !.projectId = req[r].id], "GeneralAuthMware")
  /\ Log(r, "Next ConfigIDToProjectIDMware")
  /\ UNCHANGED <<policy, req, loc, db, hist, fn>>

-----------------------------------------------------------------------------
(* Terminal handlers.  The graph engine and the relational store are       *)
(* external: a call to them is recorded in the trace and its result is any *)
(* of the results the handler distinguishes.                               *)

\* jsonResponseFrom(content, 200).write(ctx) or an error response, then return
Respond(r, code, message) ==
  /\ ctx' = [ctx EXCEPT ![r] = WriteBody(ctx[r], code, message)]
  /\ pc' = [pc EXCEPT ![r] = "return"]
  /\ stack' = stack

handleListProjects(r) ==
  /\ pc[r] = "handleListProjects"
  /\ IF req[r].Authorization = ""
     THEN \* GetProjectsFromToken without a token
          /\ Reject(r, newErrorResponse(<<"Auth Token not provided">>, 401))
          /\ Log(r, "handleListProjects")
     ELSE IF policy.err # NoErr
     THEN /\ Reject(r, PolicyErrorResponse(policy.err))
          /\ trace' = [trace EXCEPT ![r] = @ \o <<"handleListProjects", "GetAllowedResources">>]
     ELSE /\ trace' = [trace EXCEPT ![r] = @ \o <<"handleListProjects", "GetAllowedResources",
                                                   "Traversal">>]
          /\ \E ok \in BOOLEAN :
               IF ok THEN Respond(r, 200, <<"projects">>)
               ELSE Reject(r, newErrorResponse(<<"internal server error">>, 500))
  /\ UNCHANGED <<policy, req, loc, db, hist, fn>>

handleDirGet(r) ==
  /\ pc[r] = "handleDirGet"
  /\ LET project_split == Split(ctx[r].projectId, "-") IN
     IF ~req[r].dirOk
     THEN /\ Respond(r, 400, <<"Invalid or missing Directory path: ", "directory">>)
          /\ Log(r, "handleDirGet")
     ELSE IF Len(project_split) # 2
     THEN /\ Reject(r, newErrorResponse(MsgBadPath(Url(req[r])), 404))
          /\ Log(r, "handleDirGet")
     ELSE /\ trace' = [trace EXCEPT ![r] = @ \o <<"handleDirGet", "Traversal">>]
          /\ \E ok \in BOOLEAN :
               IF ok THEN Respond(r, 200, <<"vertices">>)
               ELSE Reject(r, newErrorResponse(<<"internal server error">>, 500))
  /\ UNCHANGED <<policy, req, loc, db, hist, fn>>

\* the route has no configType parameter: ctx.Params().Get returns ""
handleConfigListGET(r) ==
  /\ pc[r] = "handleConfigListGET"
  /\ trace' = [trace EXCEPT ![r] = @ \o <<"handleConfigListGET", "db">>]
  /\ LET configType == req[r].configType IN
     \E configList \in configListByType(configType) :
       IF configList = "nil"
       THEN Respond(r, 404, <<"No configs found for type: ", configType>>)
       ELSE IF configList = "error"
       THEN Respond(r, 500, <<"Database error: ", "error">>)
       ELSE Respond(r, 200, <<"names">>)
  /\ UNCHANGED <<policy, req, loc, db, hist, fn>>

MsgUnknownType(configType) == <<"Unknown config type: ", configType>>
MsgNoConfig(configId, configType) ==
  <<"no config found with configId: ", Str(configId), " of type: ", configType>>
MsgNoConfigId(configId, configType) ==
  <<"no configId found with configId: ", Str(configId), " in type: ", configType>>
MsgQueryFailed == <<"config query failed: ", "error">>

handleConfigGET(r) ==
  /\ pc[r] = "handleConfigGET"
  /\ LET configType == req[r].configType
         configId == req[r].id
     IN IF configType \notin KnownConfigTypes
        THEN /\ Respond(r, 400, MsgUnknownType(configType))
             /\ Log(r, "handleConfigGET")
        ELSE \E doc \in getDocByIdAndTable(configId, configType) :
               \* configGETGeneric: cfg stays the zero value unless a row was
               \* found and unmarshalled
               LET cfg == IF doc.found THEN Decode(configType, doc.content, FALSE).cfg
                          ELSE ZeroCfg
                   isZero == IsZero(configType, cfg)
               IN IF isZero = "panic"
                  THEN /\ Panic(r)
                       /\ trace' = [trace EXCEPT ![r] = @ \o <<"handleConfigGET", "db", "panic">>]
                  ELSE /\ trace' = [trace EXCEPT ![r] = @ \o <<"handleConfigGET", "db">>]
                       /\ IF (isZero = "true" /\ doc.found) \/ (~doc.found /\ ~doc.err)
                          THEN Respond(r, 404, MsgNoConfig(configId, configType))
                          ELSE IF doc.err
                          THEN Respond(r, 500, MsgQueryFailed)
                          ELSE /\ ctx' = [ctx EXCEPT ![r] =
                                            WriteContent(@, Marshal(configType, cfg))]
                               /\ pc' = [pc EXCEPT ![r] = "return"]
                               /\ stack' = stack
  /\ UNCHANGED <<policy, req, loc, db, hist, fn>>

handleConfigPUT(r) ==
  /\ pc[r] = "handleConfigPUT"
  /\ LET configType == req[r].configType
         configId == req[r].id
     IN IF configType \notin KnownConfigTypes
        THEN /\ Respond(r, 400, MsgUnknownType(configType))
             /\ Log(r, "handleConfigPUT")
             /\ UNCHANGED <<loc, db>>
        ELSE \E body \in Bodies :
               /\ loc' = [loc EXCEPT ![r].body = body]
               /\ IF body.kind = "unreadable"
                  THEN /\ Respond(r, 500, <<"GetBody() failed: ", "error">>)
                       /\ Log(r, "handleConfigPUT")
                       /\ UNCHANGED db
                  ELSE IF body.kind = "not json"
                  THEN /\ Respond(r, 400, <<"Invalid JSON format">>)
                       /\ Log(r, "handleConfigPUT")
                       /\ UNCHANGED db
                  ELSE IF Decode(configType, body.pairs, TRUE).err
                  THEN /\ Respond(r, 400, <<"body data unmarshal failed: ", "error">>)
                       /\ Log(r, "handleConfigPUT")
                       /\ UNCHANGED db
                  ELSE /\ trace' = [trace EXCEPT ![r] = @ \o <<"handleConfigPUT", "db">>]
                       /\ \E ok \in Exec :
                            IF ok
                            THEN /\ db' = Upsert(configId, configType,
                                            Marshal(configType,
                                                    Decode(configType, body.pairs, TRUE).cfg))
                                 /\ Respond(r, 200, <<"ACCEPTED: ", Str(configId),
                                                      " for type: ", configType>>)
                            ELSE /\ Respond(r, 500, <<"configPut failed: ", "error">>)
                                 /\ UNCHANGED db
  /\ UNCHANGED <<policy, req, hist, fn>>

\* configDELETEGeneric makes two statements, each atomic in the database and
\* nothing holding the row between them: the existence check of
\* getDocByIdAndTable ...
handleConfigDELETE(r) ==
  /\ pc[r] = "handleConfigDELETE"
  /\ trace' = [trace EXCEPT ![r] = @ \o <<"handleConfigDELETE", "db">>]
  /\ LET configType == req[r].configType
         configId == req[r].id
     IN \E doc \in getDocByIdAndTable(configId, configType) :
          IF doc.err
          THEN Respond(r, 500, MsgQueryFailed)
          ELSE IF ~doc.found
          THEN Respond(r, 404, MsgNoConfigId(configId, configType))
          ELSE /\ pc' = [pc EXCEPT ![r] = "handleConfigDELETE_exec"]
               /\ UNCHANGED <<ctx, stack>>
  /\ UNCHANGED <<policy, req, loc, db, hist, fn>>

\* ... and the DELETE statement, whose count of affected rows is not read
handleConfigDELETEExec(r) ==
  /\ pc[r] = "handleConfigDELETE_exec"
  /\ LET configType == req[r].configType
         configId == req[r].id
     IN \E ok \in Exec :
          IF ok
          THEN /\ db' = Delete(configId, configType)
               /\ Respond(r, 200, <<"DELETED: ", Str(configId), " from type: ", configType>>)
          ELSE /\ Respond(r, 500, MsgQueryFailed)
               /\ UNCHANGED db
  /\ UNCHANGED <<policy, req, loc, trace, hist, fn>>

handleQueryPoints(r) ==
  /\ pc[r] = "handleQueryPoints"
  /\ \E body \in QueryBodies :
       /\ loc' = [loc EXCEPT ![r].body = body]
       /\ IF body.kind # "object"
          THEN /\ Respond(r, 400, <<"invalid request body: JSON parsing failed: ", "error">>)
               /\ Log(r, "handleQueryPoints")
          ELSE LET qdrantReq == ToQdrantQuery(ReadJSON(body.pairs)) IN
               IF qdrantReq.err # ""
               THEN /\ Respond(r, 400, <<"invalid query parameter: ", qdrantReq.err>>)
                    /\ Log(r, "handleQueryPoints")
               ELSE /\ trace' = [trace EXCEPT ![r] = @ \o <<"handleQueryPoints", "Query">>]
                    /\ \E status \in QueryResults :
                         IF status = 200 THEN Respond(r, 200, <<"points">>)
                         ELSE Respond(r, status, <<"failed to query points: ", "error">>)
  /\ UNCHANGED <<policy, req, db, hist, fn>>

-----------------------------------------------------------------------------
(* Specification *)

Step(r) ==
  \/ Receive(r)
  \/ Complete(r)
  \/ Return(r)
  \/ recoveryMiddleware(r)
  \/ recoveryMiddlewareDeferred(r)
  \/ logRequestMiddleware(r)
  \/ logRequestMiddlewareLog(r)
  \/ GeneralAuthMware(r)
  \/ GeneralAuthMwareSplit(r)
  \/ GeneralAuthMwarePolicy(r)
  \/ GeneralAuthMwareConvert(r)
  \/ GeneralAuthMwareAccess(r)
  \/ ProjLevelAuthMware(r)
  \/ ProjLevelAuthMwarePolicy(r)
  \/ BaseConfigsAuthMiddleware(r)
  \/ BaseConfigsAuthMiddlewareCheck(r)
  \/ ConfigAuthMiddleware(r)
  \/ ConfigIDToProjectIDMware(r)
  \/ handleListProjects(r)
  \/ handleDirGet(r)
  \/ handleConfigListGET(r)
  \/ handleConfigGET(r)
  \/ handleConfigPUT(r)
  \/ handleConfigDELETE(r)
  \/ handleConfigDELETEExec(r)

Next == PolicyChange \/ \E r \in RequestIds : Step(r)

Spec == Init /\ [][Next]_vars

\* The same request sent again.  The client remembers a request that
\* GeneralAuthMware let through and sends it again for as long as the policy
\* service's answer stays what it was.
GeneralAuthRequests ==
  {q \in Requests : \/ q.route \in {"GET /dir/{projectId}", "unit GeneralAuthMware"}
                    \/ q.route = "/config/{configType}/{configId}" /\ q.configType = "explorer"}

ReceiveRepeated(r) ==
  /\ pc[r] = "idle"
  /\ \E q \in IF hist.prev = <<>> THEN GeneralAuthRequests ELSE {hist.prev[1]} : Accept(r, q)
  /\ UNCHANGED <<policy, db, hist, fn>>

CompleteRemembering(r) ==
  /\ pc[r] = "done"
  /\ Release(r)
  /\ hist' = [hist EXCEPT !.prev = IF \E i \in 1..Len(trace[r]) :
                                        trace[r][i] = "Next GeneralAuthMware"
                                   THEN <<req[r]>> ELSE <<>>]
  /\ UNCHANGED <<policy, db, fn>>

StepRepeat(r) ==
  \/ ReceiveRepeated(r)
  \/ CompleteRemembering(r)
  \/ Return(r)
  \/ recoveryMiddleware(r)
  \/ recoveryMiddlewareDeferred(r)
  \/ logRequestMiddleware(r)
  \/ logRequestMiddlewareLog(r)
  \/ GeneralAuthMware(r)
  \/ GeneralAuthMwareSplit(r)
  \/ GeneralAuthMwarePolicy(r)
  \/ GeneralAuthMwareConvert(r)
  \/ GeneralAuthMwareAccess(r)
  \/ ConfigAuthMiddleware(r)
  \/ ConfigIDToProjectIDMware(r)
  \/ handleDirGet(r)
  \/ handleConfigGET(r)
  \/ handleConfigPUT(r)
  \/ handleConfigDELETE(r)
  \/ handleConfigDELETEExec(r)

NextRepeat == PolicyChange \/ \E r \in RequestIds : StepRepeat(r)

SpecRepeat == Init /\ [][NextRepeat]_vars

\* The same request sent again after the policy service may have changed its
\* answer.  The client remembers a request whose outcome the policy answer
\* decided (it had a token and a well-formed projectId and the call was
\* made) together with whether GeneralAuthMware let it through.
ReceiveSecond(r) ==
  /\ pc[r] = "idle"
  /\ \E q \in IF hist.seen = <<>> THEN GeneralAuthRequests ELSE {hist.seen[1].req} :
       Accept(r, q)
  /\ UNCHANGED <<policy, db, hist, fn>>

CompleteObserved(r) ==
  /\ pc[r] = "done"
  /\ Release(r)
  /\ hist' = [hist EXCEPT !.seen =
                IF \E i \in 1..Len(trace[r]) : trace[r][i] = "GetAllowedResources"
                THEN <<[req |-> req[r],
                        allowed |-> \E i \in 1..Len(trace[r]) :
                                      trace[r][i] = "Next GeneralAuthMware"]>>
                ELSE <<>>]
  /\ UNCHANGED <<policy, db, fn>>

StepFresh(r) ==
  \/ ReceiveSecond(r)
  \/ CompleteObserved(r)
  \/ Return(r)
  \/ recoveryMiddleware(r)
  \/ recoveryMiddlewareDeferred(r)
  \/ logRequestMiddleware(r)
  \/ logRequestMiddlewareLog(r)
  \/ GeneralAuthMware(r)
  \/ GeneralAuthMwareSplit(r)
  \/ GeneralAuthMwarePolicy(r)
  \/ GeneralAuthMwareConvert(r)
  \/ GeneralAuthMwareAccess(r)
  \/ ConfigAuthMiddleware(r)
  \/ ConfigIDToProjectIDMware(r)
  \/ handleDirGet(r)
  \/ handleConfigGET(r)
  \/ handleConfigPUT(r)
  \/ handleConfigDELETE(r)
  \/ handleConfigDELETEExec(r)

NextFresh == PolicyChange \/ \E r \in RequestIds : StepFresh(r)

SpecFresh == Init /\ [][NextFresh]_vars

\* The config API against tables only this server writes, as the
\* integration tests of the config endpoints run it: the tables start out
\* empty, the client always sends its token and remembers the last PUT or
\* DELETE that was answered 200.
ConfigIds == {<<"a", "-", "a">>}

Quiet ==
  /\ req = [r \in RequestIds |-> NoRequest]
  /\ pc = [r \in RequestIds |-> "idle"]
  /\ stack = [r \in RequestIds |-> <<>>]
  /\ ctx = [r \in RequestIds |-> IdleContext]
  /\ loc = [r \in RequestIds |-> NoLocals]
  /\ trace = [r \in RequestIds |-> <<>>]

ConfigRequests ==
  {Request("/config/{configType}/{configId}", m, t, i, "Bearer dummy", "ProdJWTHandler", FALSE) :
     m \in {"GET", "PUT", "DELETE"}, t \in KnownConfigTypes, i \in ConfigIds}

InitConfig ==
  /\ Quiet
  /\ policy = [list |-> <<StrV("/programs/a/projects/a")>>, err |-> NoErr]
  /\ db = EmptyStore
  /\ hist = NoHistory
  /\ fn = NoCall

ReceiveConfig(r) ==
  /\ pc[r] = "idle"
  /\ \E q \in ConfigRequests : Accept(r, q)
  /\ UNCHANGED <<policy, db, hist, fn>>

CompleteAcknowledged(r) ==
  /\ pc[r] = "done"
  /\ Release(r)
  /\ hist' = IF req[r].method \in {"PUT", "DELETE"} /\ Status(ctx[r]) = 200
             THEN [hist EXCEPT !.lastWrite =
                     <<[configType |-> req[r].configType, name |-> req[r].id,
                        method |-> req[r].method, body |-> loc[r].body.pairs]>>]
             ELSE hist
  /\ UNCHANGED <<policy, db, fn>>

StepConfig(r) ==
  \/ ReceiveConfig(r)
  \/ CompleteAcknowledged(r)
  \/ Return(r)
  \/ recoveryMiddleware(r)
  \/ recoveryMiddlewareDeferred(r)
  \/ logRequestMiddleware(r)
  \/ logRequestMiddlewareLog(r)
  \/ GeneralAuthMware(r)
  \/ GeneralAuthMwareSplit(r)
  \/ GeneralAuthMwarePolicy(r)
  \/ GeneralAuthMwareConvert(r)
  \/ GeneralAuthMwareAccess(r)
  \/ BaseConfigsAuthMiddleware(r)
  \/ BaseConfigsAuthMiddlewareCheck(r)
  \/ ConfigAuthMiddleware(r)
  \/ ConfigIDToProjectIDMware(r)
  \/ handleConfigGET(r)
  \/ handleConfigPUT(r)
  \/ handleConfigDELETE(r)
  \/ handleConfigDELETEExec(r)

NextConfig == \E r \in RequestIds : StepConfig(r)

SpecConfig == InitConfig /\ [][NextConfig]_vars

\* Two requests to GET /dir/{projectId} in flight at once, each on its own
\* goroutine and context; the steps of the two interleave in every order
PairIds == {"r1", "r2"}
ConcurrentRequests ==
  {Request("GET /dir/{projectId}", "GET", "", i, h, "ProdJWTHandler", TRUE) :
     i \in {<<"a", "-", "a">>, <<"-", "a">>, <<"a", "a">>}, h \in Headers}

InitPair ==
  /\ policy \in PolicyAnswers
  /\ req = [r \in PairIds |-> NoRequest]
  /\ pc = [r \in PairIds |-> "idle"]
  /\ stack = [r \in PairIds |-> <<>>]
  /\ ctx = [r \in PairIds |-> IdleContext]
  /\ loc = [r \in PairIds |-> NoLocals]
  /\ trace = [r \in PairIds |-> <<>>]
  /\ db = SharedStore
  /\ hist = NoHistory
  /\ fn = NoCall

ReceiveConcurrent(r) ==
  /\ pc[r] = "idle"
  /\ \E q \in ConcurrentRequests : Accept(r, q)
  /\ UNCHANGED <<policy, db, hist, fn>>

StepPair(r) ==
  \/ ReceiveConcurrent(r)
  \/ Complete(r)
  \/ Return(r)
  \/ recoveryMiddleware(r)
  \/ recoveryMiddlewareDeferred(r)
  \/ logRequestMiddleware(r)
  \/ logRequestMiddlewareLog(r)
  \/ GeneralAuthMware(r)
  \/ GeneralAuthMwareSplit(r)
  \/ GeneralAuthMwarePolicy(r)
  \/ GeneralAuthMwareConvert(r)
  \/ GeneralAuthMwareAccess(r)
  \/ handleDirGet(r)

NextPair == \E r \in PairIds : StepPair(r)

SpecPair == InitPair /\ [][NextPair]_vars

\* GeneralAuthMware run from its first statement to its last with nothing
\* else running: the error response it writes, NilResp when it calls ctx.Next()
Alone(q) ==
  IF q.Authorization = "" THEN newErrorResponse(MsgNoToken, 400)
  ELSE LET project_split == Split(q.id, "-") IN
       IF Len(project_split) # 2 THEN newErrorResponse(MsgBadPath(Url(q)), 404)
       ELSE IF policy.err # NoErr THEN PolicyErrorResponse(policy.err)
       ELSE LET conv == convertAnyToStringSlice(policy.list) IN
            IF conv.err # NilResp THEN conv.err
            ELSE ParseAccess(conv.list, ResourcePath(project_split), ClosureArgs(q).method)

\* Two DELETE requests for the one config the table holds, as a PUT that
\* was answered 200 left it; each request is followed to its response
StoredConfig == Row("file_summary", <<"a", "-", "a">>, {<<"config", 1>>})

InitDelete ==
  /\ policy = [list |-> <<StrV("/programs/a/projects/a")>>, err |-> NoErr]
  /\ req = [r \in PairIds |-> NoRequest]
  /\ pc = [r \in PairIds |-> "idle"]
  /\ stack = [r \in PairIds |-> <<>>]
  /\ ctx = [r \in PairIds |-> IdleContext]
  /\ loc = [r \in PairIds |-> NoLocals]
  /\ trace = [r \in PairIds |-> <<>>]
  /\ db = [exclusive |-> TRUE, rows |-> {StoredConfig}]
  /\ hist = NoHistory
  /\ fn = NoCall

ReceiveDelete(r) ==
  /\ pc[r] = "idle"
  /\ Accept(r, Request("/config/{configType}/{configId}", "DELETE", StoredConfig.configType,
                       StoredConfig.name, "Bearer dummy", "ProdJWTHandler", FALSE))
  /\ UNCHANGED <<policy, db, hist, fn>>

StepDelete(r) ==
  \/ ReceiveDelete(r)
  \/ Return(r)
  \/ recoveryMiddleware(r)
  \/ recoveryMiddlewareDeferred(r)
  \/ logRequestMiddleware(r)
  \/ logRequestMiddlewareLog(r)
  \/ ConfigAuthMiddleware(r)
  \/ BaseConfigsAuthMiddleware(r)
  \/ BaseConfigsAuthMiddlewareCheck(r)
  \/ handleConfigDELETE(r)
  \/ handleConfigDELETEExec(r)

NextDelete == \E r \in PairIds : StepDelete(r)

SpecDelete == InitDelete /\ [][NextDelete]_vars

\* The point search of the vector API
VectorRequests ==
  {Request(o, "POST", "", <<>>, h, "ProdJWTHandler", FALSE) : o \in VectorRoutes, h \in Headers}

InitVector ==
  /\ Quiet
  /\ policy = [list |-> <<>>, err |-> NoErr]
  /\ db = SharedStore
  /\ hist = NoHistory
  /\ fn = NoCall

ReceiveVector(r) ==
  /\ pc[r] = "idle"
  /\ \E q \in VectorRequests : Accept(r, q)
  /\ UNCHANGED <<policy, db, hist, fn>>

StepVector(r) ==
  \/ ReceiveVector(r)
  \/ Complete(r)
  \/ Return(r)
  \/ recoveryMiddleware(r)
  \/ recoveryMiddlewareDeferred(r)
  \/ logRequestMiddleware(r)
  \/ logRequestMiddlewareLog(r)
  \/ handleQueryPoints(r)

NextVector == \E r \in RequestIds : StepVector(r)

SpecVector == InitVector /\ [][NextVector]_vars

\* isValidPosixPath called on its own, on every path of the bounded alphabet
InitPosix ==
  /\ Quiet
  /\ policy = [list |-> <<>>, err |-> NoErr]
  /\ db = SharedStore
  /\ hist = NoHistory
  /\ \E p \in Paths : fn = [name |-> "isValidPosixPath", arg |-> p, result |-> ""]

isValidPosixPathCall ==
  /\ fn.name = "isValidPosixPath"
  /\ fn.result = ""
  /\ fn' = [fn EXCEPT !.result = IF isValidPosixPath(fn.arg) THEN "true" ELSE "false"]
  /\ UNCHANGED <<policy, req, pc, stack, ctx, loc, trace, db, hist>>

NextPosix == isValidPosixPathCall

SpecPosix == InitPosix /\ [][NextPosix]_vars

\* handleDirGet from the directory parameter to the traversal it builds, for
\* every directory of the bounded alphabet; projectId is one GeneralAuthMware
\* let through
InitDir ==
  /\ Quiet
  /\ policy = [list |-> <<>>, err |-> NoErr]
  /\ db = SharedStore
  /\ hist = NoHistory
  /\ \E dirPath \in Paths : fn = [name |-> "handleDirGet", arg |-> dirPath, result |-> <<>>]

\* fn.name becomes the response written ("400") or the call made
\* ("Traversal"), fn.result the name filters of the query
handleDirGetQuery ==
  /\ fn.name = "handleDirGet"
  /\ LET dirPath == fn.arg IN
     fn' = IF dirPath = <<>> \/ ~isValidPosixPath(dirPath)
           THEN [fn EXCEPT !.name = "400"]
           ELSE [fn EXCEPT !.name = "Traversal", !.result = NameFilters(dirPath)]
  /\ UNCHANGED <<policy, req, pc, stack, ctx, loc, trace, db, hist>>

NextDir == handleDirGetQuery

SpecDir == InitDir /\ [][NextDir]_vars

\* ToQdrantSearchParams called on its own, on every request of the bounded
\* values
InitParams ==
  /\ Quiet
  /\ policy = [list |-> <<>>, err |-> NoErr]
  /\ db = SharedStore
  /\ hist = NoHistory
  /\ \E request \in SearchParamsRequests :
       fn = [name |-> "ToQdrantSearchParams", arg |-> request, result |-> <<>>]

ToQdrantSearchParamsCall ==
  /\ fn.name = "ToQdrantSearchParams"
  /\ fn' = [fn EXCEPT !.name = "ToQdrantSearchParams returned",
                      !.result = ToQdrantSearchParams(fn.arg)]
  /\ UNCHANGED <<policy, req, pc, stack, ctx, loc, trace, db, hist>>

NextParams == ToQdrantSearchParamsCall

SpecParams == InitParams /\ [][NextParams]_vars

TypeOK ==
  /\ policy \in PolicyAnswers
  /\ \A r \in RequestIds :
       /\ req[r] \in Requests \cup ConfigRequests \cup VectorRequests \cup {NoRequest}
       /\ ctx[r].idx \in 0..3
       /\ ctx[r].code \in {200, 400, 401, 403, 404, 409, 500, 503}

-----------------------------------------------------------------------------
(* Vocabulary of the properties *)

HandlerNames == {"handleListProjects", "handleDirGet", "handleConfigListGET", "handleConfigGET",
                 "handleConfigPUT", "handleConfigDELETE"}

Done(r) == pc[r] = "done"

\* the function or collaborator `e` has been entered / called
Entered(r, e) == \E i \in 1..Len(trace[r]) : trace[r][i] = e

\* `e` happened after middleware `f` was entered
CalledAfter(r, f, e) ==
  \E i, j \in 1..Len(trace[r]) : i < j /\ trace[r][i] = f /\ trace[r][j] = e

\* a terminal handler ran after middleware `f` was entered
RanHandlerAfter(r, f) == \E h \in HandlerNames : CalledAfter(r, f, h)

HandlerRuns(r) == Cardinality({i \in 1..Len(trace[r]) : trace[r][i] \in HandlerNames})

\* the last response written to the context
LastWrite(r) == ctx[r].body[Len(ctx[r].body)]

\* the middleware `f` ended the request with an error response of this code
RejectedWith(r, f, code) ==
  /\ ctx[r].stopped
  /\ ctx[r].body # <<>>
  /\ ctx[r].code = code
  /\ LastWrite(r).Code = code
  /\ ~Entered(r, "Next " \o f)
  /\ ~RanHandlerAfter(r, f)

Hyphens(id) == Cardinality({i \in 1..Len(id) : id[i] = "-"})

\* "/programs/{program}/projects/{project}" of an id with one hyphen
DerivedPath(id) ==
  LET k == CHOOSE i \in 1..Len(id) : id[i] = "-"
  IN "/programs/" \o Str(SubSeq(id, 1, k - 1)) \o "/projects/"
       \o Str(SubSeq(id, k + 1, Len(id)))

AllStrings(list) == \A i \in 1..Len(list) : list[i].t = "string"
Granted(list, path) == \E i \in 1..Len(list) : list[i].t = "string" /\ list[i].s = path

\* the action GeneralAuthMware is asked to authorize for a request
ActionOf(q) ==
  IF q.route \in {"/config/{configType}/{configId}", "unit ConfigAuthMiddleware"}
  THEN IF q.method = "GET" THEN "read" ELSE "create"
  ELSE "read"

\* GeneralAuthMware obtained this request's permitted list from the policy service
Consulted(r) == CalledAfter(r, "GeneralAuthMware", "GetAllowedResources")

-----------------------------------------------------------------------------
(* C1..C10 *)

\* C1: GeneralAuthMware calls ctx.Next() -- and, where it guards a handler
\* (GET /dir/{projectId}), that handler runs -- if and only if the header is
\* non-empty, projectId has exactly two '-'-separated segments, the policy
\* call succeeds with a list of strings, and the list contains the derived
\* path by exact equality; when it proceeds it writes nothing itself.
C1_NextIffExactGrant ==
  \A r \in RequestIds :
    Done(r) /\ Entered(r, "GeneralAuthMware") =>
      LET q == req[r]
          granted == /\ q.Authorization # ""
                     /\ Hyphens(q.id) = 1
                     /\ policy.err = NoErr
                     /\ AllStrings(policy.list)
                     /\ Granted(policy.list, DerivedPath(q.id))
      IN /\ Entered(r, "Next GeneralAuthMware") <=> granted
         /\ q.route = "GET /dir/{projectId}" => (Entered(r, "handleDirGet") <=> granted)
         /\ Entered(r, "Next GeneralAuthMware") =>
              /\ Len(ctx[r].body) = HandlerRuns(r)
              /\ ~ctx[r].stopped \/ RanHandlerAfter(r, "GeneralAuthMware")

C1_Witness ==
  \E r \in RequestIds :
    /\ Done(r)
    /\ req[r].route = "GET /dir/{projectId}"
    /\ policy.list = <<StrV("/programs/a"), StrV("/programs/a/projects/a")>>
    /\ CalledAfter(r, "Next GeneralAuthMware", "handleDirGet")

\* C2: on an explorer GET/PUT/DELETE through ConfigAuthMiddleware the config
\* handler runs only after the project check reached Allowed, and at most once.
C2_HandlerOnlyAfterAllowed ==
  \A r \in RequestIds :
    /\ req[r].configType = "explorer"
    /\ req[r].method \in {"GET", "PUT", "DELETE"}
    /\ Entered(r, "ConfigAuthMiddleware")
    => /\ \A j \in 1..Len(trace[r]) :
            trace[r][j] \in HandlerNames =>
              \E i \in 1..(j - 1) : trace[r][i] = "Next GeneralAuthMware"
       /\ HandlerRuns(r) <= 1

\* C3: on the routes MakeRouter registers with an authorization check, the
\* graph engine and the config table are reached only by requests that carry
\* a non-empty Authorization header.
C3_StoreOnlyWithToken ==
  \A r \in RequestIds :
    req[r].route \in Routes /\ (Entered(r, "Traversal") \/ Entered(r, "db"))
      => req[r].Authorization # ""

\* C4: without an Authorization header GeneralAuthMware and
\* BaseConfigsAuthMiddleware answer 400 "Authorization token not provided",
\* call no policy client and do not run the next handler, for every route
\* parameter and either kind of JWT handler.
C4_NoTokenIs400 ==
  \A r \in RequestIds :
    \A f \in {"GeneralAuthMware", "BaseConfigsAuthMiddleware"} :
      Done(r) /\ Entered(r, f) /\ req[r].Authorization = "" =>
        /\ RejectedWith(r, f, 400)
        /\ Contains(LastWrite(r).Message, "Authorization token not provided")
        /\ ~Entered(r, "GetAllowedResources")
        /\ ~Entered(r, "CheckResourceServiceAccess")

C4_Witness ==
  \E r \in RequestIds :
    /\ Done(r)
    /\ req[r].route = "unit BaseConfigsAuthMiddleware"
    /\ req[r].jwtHandler = "MockJWTHandler"
    /\ req[r].Authorization = ""
    /\ Status(ctx[r]) = 400

\* C5: with a token, a projectId that does not contain exactly one hyphen is
\* answered 404 "Failed to parse request body" and the next handler does not run.
C5_BadProjectIdIs404 ==
  \A r \in RequestIds :
    /\ Done(r)
    /\ Entered(r, "GeneralAuthMware")
    /\ req[r].Authorization # ""
    /\ Hyphens(req[r].id) # 1
    => /\ RejectedWith(r, "GeneralAuthMware", 404)
       /\ Contains(LastWrite(r).Message, "Failed to parse request body")
       /\ ~Entered(r, "GetAllowedResources")

C5_Witness ==
  \E r \in RequestIds :
    /\ Done(r)
    /\ req[r].route = "GET /dir/{projectId}"
    /\ req[r].Authorization # ""
    /\ req[r].id = <<"a", "-", "-">>
    /\ Status(ctx[r]) = 404

\* C6: when the policy client returns an empty list, GeneralAuthMware answers
\* 403 whatever the derived path is, and the next handler does not run.
C6_EmptyGrantIs403 ==
  \A r \in RequestIds :
    Done(r) /\ Consulted(r) /\ policy.err = NoErr /\ policy.list = <<>> =>
      RejectedWith(r, "GeneralAuthMware", 403)

C6_Witness ==
  \E r \in RequestIds :
    /\ Done(r)
    /\ Consulted(r)
    /\ policy.err = NoErr
    /\ policy.list = <<>>
    /\ req[r].id = <<"-", "a">>
    /\ Status(ctx[r]) = 403

\* C7: when the permitted strings are non-empty and do not include the
\* derived path, GeneralAuthMware answers 403 with a message holding both
\* the action and the derived path, and the next handler does not run.
C7_MismatchIs403NamingActionAndPath ==
  \A r \in RequestIds :
    /\ Done(r)
    /\ Consulted(r)
    /\ policy.err = NoErr
    /\ policy.list # <<>>
    /\ AllStrings(policy.list)
    /\ ~Granted(policy.list, DerivedPath(req[r].id))
    => /\ RejectedWith(r, "GeneralAuthMware", 403)
       /\ Contains(LastWrite(r).Message, ActionOf(req[r]))
       /\ Contains(LastWrite(r).Message, DerivedPath(req[r].id))

C7_Witness ==
  \E r \in RequestIds :
    /\ Done(r)
    /\ Consulted(r)
    /\ policy.list = <<StrV("/programs/a/projects/*")>>
    /\ req[r].id = <<"a", "-", "a">>
    /\ ActionOf(req[r]) = "create"
    /\ Status(ctx[r]) = 403

\* the resource path a middleware checks for a request, and the action
CheckedPath(r, f) ==
  IF f = "GeneralAuthMware" THEN DerivedPath(req[r].id) ELSE "/programs"

CheckedAction(r, f) ==
  IF f = "GeneralAuthMware" THEN ActionOf(req[r])
  ELSE IF req[r].route = "unit BaseConfigsAuthMiddleware" THEN "read" ELSE "*"

Denied(r, f) == Done(r) /\ Entered(r, f) /\ ctx[r].body # <<>> /\ LastWrite(r).Code = 403

\* C8 as stated: every 403 written by GeneralAuthMware or
\* BaseConfigsAuthMiddleware names the action and the resource path checked.
C8_DenialNamesActionAndPath ==
  \A r \in RequestIds :
    \A f \in {"GeneralAuthMware", "BaseConfigsAuthMiddleware"} :
      Denied(r, f) =>
        /\ Contains(LastWrite(r).Message, CheckedAction(r, f))
        /\ Contains(LastWrite(r).Message, CheckedPath(r, f))

\* C8 amended: every 403 names the action; it names the path checked except
\* when GeneralAuthMware got an empty permitted list, where the message is
\* "... on any resource path" and holds no path.
C8_DenialNamesActionAndPathUnlessEmpty ==
  \A r \in RequestIds :
    \A f \in {"GeneralAuthMware", "BaseConfigsAuthMiddleware"} :
      Denied(r, f) =>
        /\ Contains(LastWrite(r).Message, CheckedAction(r, f))
        /\ IF f = "GeneralAuthMware" /\ policy.list = <<>>
           THEN /\ Contains(LastWrite(r).Message, " on any resource path")
                /\ ~Contains(LastWrite(r).Message, CheckedPath(r, f))
           ELSE Contains(LastWrite(r).Message, CheckedPath(r, f))

C8_Witness ==
  \E r \in RequestIds :
    /\ Denied(r, "GeneralAuthMware")
    /\ policy.list = <<>>
    /\ req[r].id = <<"a", "-", "a">>
    /\ LastWrite(r).Message = <<"User is not allowed to ", "read", " on any resource path">>

\* C9: a list with a non-string element makes GeneralAuthMware answer 500
\* "Element <value> is not a string" for the first such element in list
\* order, without running the next handler, even if the derived path is in
\* the list too.
C9_NonStringIs500 ==
  \A r \in RequestIds :
    Done(r) /\ Consulted(r) /\ policy.err = NoErr /\ ~AllStrings(policy.list) =>
      LET bad == {i \in 1..Len(policy.list) : policy.list[i].t # "string"}
          first == CHOOSE i \in bad : \A j \in bad : i <= j
      IN /\ RejectedWith(r, "GeneralAuthMware", 500)
         /\ LastWrite(r).Message =
              <<"Element ", ToString(policy.list[first].n), " is not a string">>

C9_Witness ==
  \E r \in RequestIds :
    /\ Done(r)
    /\ Consulted(r)
    /\ req[r].id = <<"a", "-", "a">>
    /\ policy.list = <<StrV("/programs/a/projects/a"), IntV(123)>>
    /\ Status(ctx[r]) = 500
    /\ LastWrite(r).Message = <<"Element ", "123", " is not a string">>

\* C10: a policy call failing with a *ServerError{Message, StatusCode} makes
\* GeneralAuthMware and BaseConfigsAuthMiddleware answer with that status
\* and a body holding that message; the next handler does not run.
C10_ServerErrorPassesThrough ==
  \A r \in RequestIds :
    /\ Done(r) /\ Consulted(r) /\ policy.err.kind = "ServerError" =>
         /\ RejectedWith(r, "GeneralAuthMware", policy.err.StatusCode)
         /\ Contains(LastWrite(r).Message, policy.err.Message)
    /\ /\ Done(r)
       /\ CalledAfter(r, "BaseConfigsAuthMiddleware", "CheckResourceServiceAccess")
       /\ loc[r].err.kind = "ServerError"
       => /\ RejectedWith(r, "BaseConfigsAuthMiddleware", loc[r].err.StatusCode)
          /\ Contains(LastWrite(r).Message, loc[r].err.Message)

C10_Witness ==
  \E r \in RequestIds :
    /\ Done(r)
    /\ CalledAfter(r, "BaseConfigsAuthMiddleware", "CheckResourceServiceAccess")
    /\ loc[r].err = [kind |-> "ServerError", Message |-> "token expired", StatusCode |-> 401]
    /\ Status(ctx[r]) = 401
    /\ Contains(LastWrite(r).Message, "token expired")

-----------------------------------------------------------------------------
(* C11..C20 *)

\* C11: a policy call failing with an error that is not a *ServerError makes
\* the middleware answer 404 "expecting error to be serverError type" -- not
\* a 403 denial, not the error's own text -- and the next handler does not run.
C11_UnstructuredErrorIs404 ==
  \A r \in RequestIds :
    /\ Done(r) /\ Consulted(r) /\ policy.err.kind = "error" =>
         /\ RejectedWith(r, "GeneralAuthMware", 404)
         /\ LastWrite(r).Message = <<"expecting error to be serverError type">>
    /\ /\ Done(r)
       /\ CalledAfter(r, "BaseConfigsAuthMiddleware", "CheckResourceServiceAccess")
       /\ loc[r].err.kind = "error"
       => /\ RejectedWith(r, "BaseConfigsAuthMiddleware", 404)
          /\ LastWrite(r).Message = <<"expecting error to be serverError type">>

C11_Witness ==
  \E r \in RequestIds :
    /\ Done(r)
    /\ req[r].route = "GET /dir/{projectId}"
    /\ Consulted(r)
    /\ policy.err = [kind |-> "error", Message |-> "generic error", StatusCode |-> 0]
    /\ Status(ctx[r]) = 404
    /\ ~Entered(r, "handleDirGet")

\* C13: with a token and a policy client that is not a *ProdJWTHandler,
\* BaseConfigsAuthMiddleware answers 500 "... Invalid JWT handler
\* configuration ...", makes no policy call and does not run the next handler.
C13_BadJWTHandlerIs500 ==
  \A r \in RequestIds :
    /\ Done(r)
    /\ Entered(r, "BaseConfigsAuthMiddleware")
    /\ req[r].Authorization # ""
    /\ req[r].jwtHandler # "ProdJWTHandler"
    => /\ RejectedWith(r, "BaseConfigsAuthMiddleware", 500)
       /\ Contains(LastWrite(r).Message, "Invalid JWT handler configuration")
       /\ ~Entered(r, "CheckResourceServiceAccess")
       /\ ~Entered(r, "GetAllowedResources")

C13_Witness ==
  \E r \in RequestIds :
    /\ Done(r)
    /\ req[r].route = "unit BaseConfigsAuthMiddleware"
    /\ req[r].Authorization = "Bearer dummy"
    /\ req[r].jwtHandler = "MockJWTHandler"
    /\ Status(ctx[r]) = 500
    /\ trace[r] = <<"BaseConfigsAuthMiddleware">>

\* C14 as stated: a method other than GET, PUT or DELETE makes
\* ConfigAuthMiddleware answer 405 with a body holding "Unsupported HTTP
\* method", without a policy call and without running the next handler.
C14_UnsupportedMethodIs405 ==
  \A r \in RequestIds :
    /\ Done(r)
    /\ Entered(r, "ConfigAuthMiddleware")
    /\ req[r].method \notin {"GET", "PUT", "DELETE"}
    => /\ RejectedWith(r, "ConfigAuthMiddleware", 405)
       /\ Contains(LastWrite(r).Message, "Unsupported HTTP method")
       /\ ~Entered(r, "GetAllowedResources")
       /\ ~Entered(r, "CheckResourceServiceAccess")

\* C16 as stated: an identifier with one hyphen and an empty program or
\* project segment is answered 404 by GeneralAuthMware and reaches neither
\* the policy call nor the graph query.
C16_EmptySegmentIsMalformed ==
  \A r \in RequestIds :
    /\ Done(r)
    /\ Entered(r, "GeneralAuthMware")
    /\ req[r].Authorization # ""
    /\ Hyphens(req[r].id) = 1
    /\ req[r].id[1] = "-" \/ req[r].id[Len(req[r].id)] = "-"
    => /\ RejectedWith(r, "GeneralAuthMware", 404)
       /\ ~Entered(r, "GetAllowedResources")
       /\ ~Entered(r, "Traversal")

\* C15: a panic in a handler below recoveryMiddleware always unwinds into its
\* deferred function, which answers 500 with the body "Internal Server Error"
\* and nothing else, returns normally, and the request completes; when the
\* chain returns without a panic the deferred function leaves the response
\* (status and body, structured rejections included) as it found it.
C15_PanicIs500 ==
  /\ [](\A r \in RequestIds :
          /\ pc[r] = "panic" => Deferred(r)
          /\ Done(r) /\ Entered(r, "panic") =>
               /\ Status(ctx[r]) = 500
               /\ ctx[r].body = <<[Code |-> 500, Message |-> <<"Internal Server Error">>,
                                   Content |-> {}]>>
          /\ Done(r) /\ ~Entered(r, "panic") =>
               \A i \in 1..Len(ctx[r].body) :
                 ctx[r].body[i].Message # <<"Internal Server Error">>)
  /\ [][\A r \in RequestIds :
          /\ pc[r] = "panic" => pc'[r] = "return"
          /\ pc[r] = "recoveryMiddleware_deferred" => ctx'[r] = ctx[r] /\ pc'[r] = "return"]_vars

C15_Witness ==
  \E r \in RequestIds :
    /\ Done(r)
    /\ req[r].route = "/config/{configType}/{configId}"
    /\ req[r].configType = "nav"
    /\ req[r].method = "GET"
    /\ trace[r] = <<"ConfigAuthMiddleware", "Next ConfigAuthMiddleware",
                    "handleConfigGET", "db", "panic">>
    /\ Status(ctx[r]) = 500

\* C12: a request that GeneralAuthMware allowed, sent again with the same
\* token while the policy service's answer has not changed, is allowed again
\* (ctx.Next() is called, the guarded handler runs, the middleware writes
\* nothing): handling a request leaves nothing behind that changes the
\* outcome of the next identical one.
C12_RepeatIsAllowedAgain ==
  \A r \in RequestIds :
    Done(r) /\ hist.prev # <<>> =>
      /\ req[r] = hist.prev[1]
      /\ Entered(r, "Next GeneralAuthMware")
      /\ req[r].route = "GET /dir/{projectId}" =>
           CalledAfter(r, "Next GeneralAuthMware", "handleDirGet")
      /\ Len(ctx[r].body) = HandlerRuns(r)

C12_Witness ==
  \E r \in RequestIds :
    /\ Done(r)
    /\ hist.prev # <<>>
    /\ req[r] = hist.prev[1]
    /\ req[r].route = "GET /dir/{projectId}"
    /\ policy.list = <<StrV("/programs/a/projects/a")>>
    /\ CalledAfter(r, "Next GeneralAuthMware", "handleDirGet")
    /\ Status(ctx[r]) = 200

\* C17: isValidPosixPath returns false exactly for the paths that hold a NUL
\* byte, do not start with '/', hold a backslash, or whose cleaned form is
\* empty, ".", ".." or begins with "/.."; it returns true for all others.
C17_ValidPosixPath ==
  fn.name = "isValidPosixPath" /\ fn.result # "" =>
    LET p == fn.arg
        cleaned == Clean(p)
        bad == \/ \E i \in 1..Len(p) : p[i] = "NUL"
               \/ p = <<>> \/ p[1] # "/"
               \/ \E i \in 1..Len(p) : p[i] = "\\"
               \/ cleaned \in {<<>>, <<".">>, <<".", ".">>}
               \/ Len(cleaned) >= 3 /\ cleaned[1] = "/" /\ cleaned[2] = "." /\ cleaned[3] = "."
    IN /\ fn.result = IF bad THEN "false" ELSE "true"
       /\ p = <<"/", "a", "/", ".", ".">> => cleaned = <<"/">> /\ fn.result = "true"
       /\ p = <<"/", ".", ".", "/", "a">> => cleaned = <<"/", "a">> /\ fn.result = "true"
       /\ p = <<"/", "/", "a", "/", ".">> => cleaned = <<"/", "a">>
       /\ p = <<"/", ".", ".", "a">> => cleaned = p
       /\ p = <<"a", "/", ".", ".">> => cleaned = <<".">>

C17_Witness ==
  fn = [name |-> "isValidPosixPath", arg |-> <<"/", ".", ".", "a">>, result |-> "false"]

\* the GET that has just been answered, and the row its id has in the table
AnsweredGET(r) ==
  /\ Done(r)
  /\ req[r].route = "/config/{configType}/{configId}"
  /\ req[r].method = "GET"

Stored(r) ==
  \E row \in db.rows : row.configType = req[r].configType /\ row.name = req[r].id

Acknowledged(r, method) ==
  /\ hist.lastWrite # <<>>
  /\ hist.lastWrite[1].method = method
  /\ hist.lastWrite[1].configType = req[r].configType
  /\ hist.lastWrite[1].name = req[r].id

\* C18 as stated: a GET for an id that has no row in the table of its type
\* is answered 404, for each of the four config types.
C18_MissingConfigIs404 ==
  \A r \in RequestIds :
    AnsweredGET(r) /\ db.exclusive /\ ~Stored(r) => Status(ctx[r]) = 404

\* C19 as stated: when the last PUT or DELETE answered 200 for this id was a
\* PUT of a config that is not empty, a GET of the id is answered 200 with
\* the config that was put.
C19_GetReturnsWhatWasPut ==
  \A r \in RequestIds :
    /\ AnsweredGET(r)
    /\ Acknowledged(r, "PUT")
    /\ Decode(req[r].configType, hist.lastWrite[1].body, TRUE).cfg # ZeroCfg
    => /\ Status(ctx[r]) = 200
       /\ Decode(req[r].configType, ctx[r].body[1].Content, FALSE).cfg
            = Decode(req[r].configType, hist.lastWrite[1].body, TRUE).cfg

\* C20 as stated: when the last PUT or DELETE answered 200 for this id was a
\* DELETE, a GET of the id is answered 404.
C20_GetAfterDeleteIs404 ==
  \A r \in RequestIds :
    AnsweredGET(r) /\ Acknowledged(r, "DELETE") => Status(ctx[r]) = 404

-----------------------------------------------------------------------------
(* C21..C30 *)

\* the number of times `e` happened
Times(r, e) == Cardinality({i \in 1..Len(trace[r]) : trace[r][i] = e})

\* C22: GeneralAuthMware checks the token first, then derives the path, then
\* calls the policy service: a request with neither a token nor a well-formed
\* projectId is answered 400 "Authorization token not provided";
\* GetAllowedResources is called at most once per request, and never for a
\* request without a token or with a malformed projectId.
C22_TokenThenPathThenPolicy ==
  \A r \in RequestIds :
    Entered(r, "GeneralAuthMware") =>
      /\ Times(r, "GetAllowedResources") <= 1
      /\ req[r].Authorization = "" \/ Hyphens(req[r].id) # 1
           => ~Entered(r, "GetAllowedResources")
      /\ Done(r) /\ req[r].Authorization = "" /\ Hyphens(req[r].id) # 1
           => /\ RejectedWith(r, "GeneralAuthMware", 400)
              /\ LastWrite(r).Message = MsgNoToken

C22_Witness ==
  \E r \in RequestIds :
    /\ Done(r)
    /\ req[r].route = "GET /dir/{projectId}"
    /\ req[r].Authorization = ""
    /\ Hyphens(req[r].id) = 2
    /\ Status(ctx[r]) = 400
    /\ Times(r, "GetAllowedResources") = 0

\* the check ConfigAuthMiddleware selected for a request: the middleware it
\* hands the request to with the method and service it passes
Selected(r, f, method, service) ==
  Entered(r, f) /\ loc[r].method = method /\ loc[r].service = service

\* C26: ConfigAuthMiddleware selects the check from configType and method:
\* for "explorer", GeneralAuthMware with "read" (GET) or "create" (PUT,
\* DELETE) and service "*" on the project derived from configId; for every
\* other configType, PUT and DELETE get BaseConfigsAuthMiddleware with method
\* "*" and service "*"; and a PUT or DELETE handler runs only after one of
\* the two checks has allowed the request.
C26_WriteOnlyAfterSelectedCheck ==
  \A r \in RequestIds :
    LET q == req[r] IN
    Entered(r, "ConfigAuthMiddleware") /\ q.method \in {"GET", "PUT", "DELETE"} =>
      /\ Done(r) /\ q.configType = "explorer" =>
           /\ Selected(r, "GeneralAuthMware", IF q.method = "GET" THEN "read" ELSE "create", "*")
           /\ ctx[r].projectId = q.id
           /\ ~Entered(r, "BaseConfigsAuthMiddleware")
      /\ Done(r) /\ q.configType # "explorer" /\ q.method # "GET" =>
           /\ Selected(r, "BaseConfigsAuthMiddleware", "*", "*")
           /\ ~Entered(r, "GeneralAuthMware")
      /\ q.method \in {"PUT", "DELETE"} =>
           \A j \in 1..Len(trace[r]) :
             trace[r][j] \in HandlerNames =>
               \E i \in 1..(j - 1) :
                 trace[r][i] \in {"Next GeneralAuthMware", "Next BaseConfigsAuthMiddleware"}

\* C27: the permitted list is fetched for every request and never reused:
\* when a request is sent again after the policy service changed its answer,
\* the new answer decides -- a request that was let through is answered 403
\* once its grant is gone, a request that was denied is let through once the
\* grant is there, and in every case GeneralAuthMware proceeds exactly when
\* the present answer grants the derived path.
C27_SecondRequestDecidedByNewAnswer ==
  \A r \in RequestIds :
    Done(r) /\ hist.seen # <<>> =>
      LET q == req[r]
          granted == /\ policy.err = NoErr
                     /\ AllStrings(policy.list)
                     /\ Granted(policy.list, DerivedPath(q.id))
          denied == /\ policy.err = NoErr
                    /\ AllStrings(policy.list)
                    /\ ~Granted(policy.list, DerivedPath(q.id))
      IN /\ q = hist.seen[1].req
         /\ Times(r, "GetAllowedResources") = 1
         /\ Entered(r, "Next GeneralAuthMware") <=> granted
         /\ hist.seen[1].allowed /\ denied => RejectedWith(r, "GeneralAuthMware", 403)
         /\ ~hist.seen[1].allowed /\ granted /\ q.route = "GET /dir/{projectId}"
              => CalledAfter(r, "Next GeneralAuthMware", "handleDirGet")

\* a grant was revoked between the two requests
C27_Witness ==
  \E r \in RequestIds :
    /\ Done(r)
    /\ hist.seen # <<>>
    /\ hist.seen[1].allowed
    /\ policy.list = <<StrV("/programs/a")>>
    /\ Status(ctx[r]) = 403

\* C23: when the list returned for the token is empty or does not contain
\* the derived project path, ProjLevelAuthMware answers 403 and the next
\* handler does not run.
C23_ProjLevelDenialIs403 ==
  \A r \in RequestIds :
    /\ Done(r)
    /\ Entered(r, "ProjLevelAuthMware")
    /\ req[r].Authorization # ""
    /\ Hyphens(req[r].id) = 1
    /\ policy.err = NoErr
    /\ AllStrings(policy.list)
    /\ ~Granted(policy.list, DerivedPath(req[r].id))
    => /\ RejectedWith(r, "ProjLevelAuthMware", 403)
       /\ Contains(LastWrite(r).Message, "User is not allowed to ")

\* the table name a handler interpolates into its statements: the configType
\* route parameter as the handler reads it
Table(r) == req[r].configType

\* C24: a statement with configType as its table name (list, get, put,
\* delete) is executed only with a configType of the fixed list explorer,
\* nav, file_summary, apps_page: no request reaches the database layer with
\* any other value.
C24_TableNameFromFixedList ==
  \A r \in RequestIds :
    Entered(r, "db") => Table(r) \in KnownConfigTypes

\* C25: handleDirGet builds the traversal only from a directory that cannot
\* escape the project root: no name filter of the query is ".." and no name
\* filter contains a NUL byte or a backslash.
C25_NoDotDotNameFilter ==
  fn.name = "Traversal" =>
    \A i \in 1..Len(fn.result) :
      /\ fn.result[i] # <<".", ".">>
      /\ ~ContainsRune(fn.result[i], "NUL")
      /\ ~ContainsRune(fn.result[i], "\\")

\* the decoded point query of a request
Query(r) == ReadJSON(loc[r].body.pairs)
HasQueryVector(r) == Query(r).Query > 0
HasPositive(r) == Query(r).LookupID # <<>> \/ Query(r).Positives > 0
HasRecommend(r) == HasPositive(r) \/ Query(r).Negatives > 0

\* C21: a point query is accepted -- the vector engine is queried -- exactly
\* when it gives a non-empty query vector and no recommend input, or recommend
\* inputs with at least one positive (lookup_id or positives) and no query
\* vector; every other decoded request (both given, negatives only, neither,
\* e.g. an empty query vector and no lookup_id) is answered 400 with a message
\* starting "invalid query parameter: " and the engine is not queried.
C21_QueryNeedsVectorXorPositive ==
  \A r \in RequestIds :
    Done(r) /\ Entered(r, "handleQueryPoints") /\ loc[r].body.kind = "object" =>
      IF \/ HasQueryVector(r) /\ ~HasRecommend(r)
         \/ ~HasQueryVector(r) /\ HasPositive(r)
      THEN Times(r, "Query") = 1
      ELSE /\ ~Entered(r, "Query")
           /\ Status(ctx[r]) = 400
           /\ Len(ctx[r].body) = 1
           /\ LastWrite(r).Message[1] = "invalid query parameter: "

\* the request of QueryPoints_MissingVector_BadRequest
C21_Witness ==
  \E r \in RequestIds :
    /\ Done(r)
    /\ loc[r].body = Body("object", {<<"query", 0>>})
    /\ Status(ctx[r]) = 400
    /\ LastWrite(r).Message = <<"invalid query parameter: ", MsgNoInput>>

\* C30: ToQdrantSearchParams returns nil only when the request is nil or
\* sets no field (neither of the two it converts, HnswEf and Exact);
\* whenever HnswEf or Exact is set, the returned params are non-nil and
\* carry every value that was set.
C30_SearchParamsCarrySetFields ==
  fn.name = "ToQdrantSearchParams returned" =>
    LET request == fn.arg
        params == fn.result
    IN /\ params = <<>> =>
            \/ request = <<>>
            \/ request[1].HnswEf = <<>> /\ request[1].Exact = <<>>
       /\ request # <<>> /\ (request[1].HnswEf # <<>> \/ request[1].Exact # <<>>) =>
            /\ params # <<>>
            /\ params[1].HnswEf = request[1].HnswEf
            /\ params[1].Exact = request[1].Exact

\* C28: when requests are authorized concurrently, under every interleaving
\* each request's outcome (status, message, whether its handler runs) is the
\* outcome it gets when it is processed alone: nothing of one request (token,
\* derived path, permitted list) is visible to another.
C28_ConcurrentOutcomeAsAlone ==
  \A r \in PairIds :
    Done(r) =>
      LET alone == Alone(req[r]) IN
      IF alone = NilResp
      THEN /\ CalledAfter(r, "Next GeneralAuthMware", "handleDirGet")
           /\ HandlerRuns(r) = 1
           /\ Len(ctx[r].body) = 1
           /\ loc[r].project_split = Split(req[r].id, "-")
      ELSE /\ ~Entered(r, "handleDirGet")
           /\ ~Entered(r, "Next GeneralAuthMware")
           /\ ctx[r].stopped
           /\ Status(ctx[r]) = alone.Code
           /\ ctx[r].body = <<[Code |-> alone.Code, Message |-> alone.Message, Content |-> {}]>>

\* an allowed and a denied request have run at the same time
C28_Witness ==
  /\ Done("r1") /\ Done("r2")
  /\ req["r1"].id = <<"a", "-", "a">> /\ Entered("r1", "handleDirGet")
  /\ req["r2"].id = <<"-", "a">> /\ Status(ctx["r2"]) = 403

\* the DELETE requests that reached the handler and have their response
Deleters == {r \in PairIds : Done(r) /\ Entered(r, "handleConfigDELETE")}

\* C29: of several concurrent DELETE requests for the same stored config,
\* under every interleaving of the existence check and the delete statement
\* at most one is answered 200, and once all are answered exactly one is and
\* every other one is answered 404.
C29_DeletedOnce ==
  /\ Cardinality({r \in Deleters : Status(ctx[r]) = 200}) <= 1
  /\ Deleters = PairIds =>
       /\ Cardinality({r \in Deleters : Status(ctx[r]) = 200}) = 1
       /\ \A r \in Deleters : Status(ctx[r]) \in {200, 404}

====
